---------------------------- MODULE Spec2Model ----------------------------
(***************************************************************************)
(* Verification model of the lyrics/chord engine of ChordsManagement       *)
(* (src/data_processing.py and its callers).                               *)
(*                                                                         *)
(* A Python str is modelled as a sequence of one-character strings, so     *)
(* that slicing, stripping, splitting and regular-expression matching are  *)
(* computed character by character, the way the code computes them.        *)
(* Python offsets are 0-based; sequence indexes here are 1-based, and      *)
(* every stored chord position keeps its Python (0-based) value.           *)
(***************************************************************************)
EXTENDS Integers, Sequences, FiniteSets, TLC

VARIABLES
    lyrics,     \* the text handed to the engine (a lyrics block or a token)
    lines,      \* song.lines: the Line objects (text, chords) of the Song
    results,    \* the values returned by the calls made so far, in order
    pc,         \* position of the sequential caller
    threads,    \* the concurrent render calls (per-thread locals)
    song,       \* the Song row the lines belong to (id, title, artist_id)
    db,         \* the song table the bulk operations work on, in id order
    gui         \* the fields of the ChordEditor window

vars == <<lyrics, lines, results, pc, threads, song, db, gui>>

---------------------------------------------------------------------------
(* Characters and elementary str operations                                *)

NL == "\n"
SP == " "

UpperLetters ==
    {"A","B","C","D","E","F","G","H","I","J","K","L","M",
     "N","O","P","Q","R","S","T","U","V","W","X","Y","Z"}
LowerLetters ==
    {"a","b","c","d","e","f","g","h","i","j","k","l","m",
     "n","o","p","q","r","s","t","u","v","w","x","y","z"}
Digits == {"0","1","2","3","4","5","6","7","8","9"}

\* \w of the re module (ASCII part)
WordChars == UpperLetters \cup LowerLetters \cup Digits \cup {"_"}
\* \s of the re module / what str.strip() and str.split() remove
WhitespaceChars == {" ", "\t", "\n", "\r"}
\* the line boundaries str.splitlines() splits on
LineBreakChars == {"\n", "\r"}

Min2(a, b) == IF a <= b THEN a ELSE b
Max2(a, b) == IF a >= b THEN a ELSE b
SetMax(S) == CHOOSE m \in S : \A n \in S : n <= m
SetMin(S) == CHOOSE m \in S : \A n \in S : m <= n

\* s[i] for a 1-based index, "" when i is outside the string
Char(s, i) == IF i \in 1..Len(s) THEN s[i] ELSE ""

\* s[a:b] with Python's clamping of out-of-range bounds (a, b >= 0)
Slice(s, a, b) == SubSeq(s, Min2(a, Len(s)) + 1, Min2(b, Len(s)))
\* s[:b]
SliceTo(s, b) == Slice(s, 0, b)
\* s[a:]
SliceFrom(s, a) == Slice(s, a, Len(s))

RECURSIVE Flatten(_)
\* "".join / list concatenation of a sequence of sequences
Flatten(ss) == IF ss = << >> THEN << >> ELSE Head(ss) \o Flatten(Tail(ss))

RECURSIVE LStrip(_)
LStrip(s) ==
    IF s # << >> /\ Head(s) \in WhitespaceChars THEN LStrip(Tail(s)) ELSE s

RECURSIVE RStrip(_)
RStrip(s) ==
    IF s # << >> /\ s[Len(s)] \in WhitespaceChars
    THEN RStrip(SubSeq(s, 1, Len(s) - 1)) ELSE s

\* str.strip()
Strip(s) == RStrip(LStrip(s))

RECURSIVE SplitLinesFrom(_, _)
\* str.splitlines(): cur is the line being collected
SplitLinesFrom(s, cur) ==
    IF s = << >> THEN (IF cur = << >> THEN << >> ELSE <<cur>>)
    ELSE IF Head(s) = "\r" /\ Len(s) >= 2 /\ s[2] = "\n"
         THEN <<cur>> \o SplitLinesFrom(Tail(Tail(s)), << >>)
    ELSE IF Head(s) \in LineBreakChars
         THEN <<cur>> \o SplitLinesFrom(Tail(s), << >>)
    ELSE SplitLinesFrom(Tail(s), Append(cur, Head(s)))

SplitLines(s) == SplitLinesFrom(s, << >>)

RECURSIVE SplitFrom(_, _)
\* str.split(): whitespace-delimited tokens, empty tokens dropped
SplitFrom(s, cur) ==
    IF s = << >> THEN (IF cur = << >> THEN << >> ELSE <<cur>>)
    ELSE IF Head(s) \in WhitespaceChars
         THEN (IF cur = << >> THEN << >> ELSE <<cur>>)
              \o SplitFrom(Tail(s), << >>)
    ELSE SplitFrom(Tail(s), Append(cur, Head(s)))

Split(s) == SplitFrom(s, << >>)

RECURSIVE Join(_, _)
\* sep.join(parts)
Join(sep, parts) ==
    IF parts = << >> THEN << >>
    ELSE IF Len(parts) = 1 THEN parts[1]
    ELSE parts[1] \o sep \o Join(sep, Tail(parts))

---------------------------------------------------------------------------
(* Chord grammar: CHORD_NORMALIZATION_PATTERN and the patterns built on it *)

Roots == {"A","B","C","D","E","F","G"}
Accidentals == {"#","b"}
\* the alternation (m|maj|min|dim|aug|sus|add), in the order it is tried
Qualities ==
    << <<"m">>, <<"m","a","j">>, <<"m","i","n">>, <<"d","i","m">>,
       <<"a","u","g">>, <<"s","u","s">>, <<"a","d","d">> >>

StartsWith(s, j, w) ==
    /\ j + Len(w) - 1 <= Len(s)
    /\ SubSeq(s, j, j + Len(w) - 1) = w

\* [#b]? at j: the ends the matcher tries, greedy first
AccEnds(s, j) == IF Char(s, j) \in Accidentals THEN <<j + 1, j>> ELSE <<j>>

RECURSIVE QualEndsFrom(_, _, _)
QualEndsFrom(s, j, k) ==
    IF k > Len(Qualities) THEN <<j>>
    ELSE (IF StartsWith(s, j, Qualities[k])
          THEN <<j + Len(Qualities[k])>> ELSE << >>)
         \o QualEndsFrom(s, j, k + 1)

\* (m|maj|...)? at j
QualEnds(s, j) == QualEndsFrom(s, j, 1)

RECURSIVE DigitRun(_, _)
DigitRun(s, j) == IF Char(s, j) \in Digits THEN 1 + DigitRun(s, j + 1) ELSE 0

\* \d* at j: longest run first, then shorter ones
DigitEnds(s, j) ==
    LET n == DigitRun(s, j) IN [k \in 1..(n + 1) |-> j + n + 1 - k]

\* (/[A-G][#b]?)? at j
BassEnds(s, j) ==
    IF Char(s, j) = "/" /\ Char(s, j + 1) \in Roots
    THEN AccEnds(s, j + 2) \o <<j>>
    ELSE <<j>>

\* Every way CHORD_NORMALIZATION_PATTERN matches at index i of s, as the
\* index just past the match, in the order the backtracking matcher tries
\* them.
ChordParses(s, i) ==
    IF Char(s, i) \notin Roots THEN << >>
    ELSE LET a == AccEnds(s, i + 1)
             q == Flatten([k \in DOMAIN a |-> QualEnds(s, a[k])])
             d == Flatten([k \in DOMAIN q |-> DigitEnds(s, q[k])])
         IN  Flatten([k \in DOMAIN d |-> BassEnds(s, d[k])])

\* \b at index i (between s[i-1] and s[i])
WordBoundary(s, i) == (Char(s, i - 1) \in WordChars) # (Char(s, i) \in WordChars)

\* first element of a sequence of ends that belongs to Ok, 0 when none
FirstIn(ends, Ok) ==
    LET idx == {k \in DOMAIN ends : ends[k] \in Ok}
    IN  IF idx = {} THEN 0 ELSE ends[SetMin(idx)]

\* re.match of CHORDS_PATTERN at index i: the index just past ")" or 0
BracketMatchEnd(s, i) ==
    IF Char(s, i) # "(" THEN 0
    ELSE LET e == FirstIn(ChordParses(s, i + 1),
                          {j \in 1..Len(s) : s[j] = ")"})
         IN  IF e = 0 THEN 0 ELSE e + 1

\* re.fullmatch(CHORDS_PATTERN, "(" + t + ")")
BracketedAccepts(t) ==
    LET s == <<"(">> \o t \o <<")">> IN BracketMatchEnd(s, 1) = Len(s) + 1

\* CHORD_REGEX.fullmatch(t)
CHORD_REGEX_fullmatch(t) ==
    /\ WordBoundary(t, 1)
    /\ \E k \in DOMAIN ChordParses(t, 1) :
          /\ ChordParses(t, 1)[k] = Len(t) + 1
          /\ WordBoundary(t, Len(t) + 1)

---------------------------------------------------------------------------
(* Bracket tokenizer and line structurer: convert_lyrics_into_song_lines   *)

RECURSIVE FindBracketMatches(_, _)
\* re.finditer(CHORDS_PATTERN, s) from index i: the non-overlapping matches,
\* leftmost first, each with its Python start/end offsets and group(1)
FindBracketMatches(s, i) ==
    IF i > Len(s) THEN << >>
    ELSE LET e == BracketMatchEnd(s, i)
         IN  IF e = 0 THEN FindBracketMatches(s, i + 1)
             ELSE <<[start |-> i - 1, end |-> e - 1,
                     chord |-> SubSeq(s, i + 1, e - 2)]>>
                  \o FindBracketMatches(s, e)

\* Variant that removes nothing from the line
RemoveNoMatches(s, ms, from) == SliceFrom(s, from)

RECURSIVE RemoveMatches(_, _, _)
\* re.sub(CHORDS_PATTERN, "", s): s without the matched substrings
\* (from is the Python offset the copy resumes at)
RemoveMatches(s, ms, from) ==
    IF ms = << >> THEN SliceFrom(s, from)
    ELSE Slice(s, from, Head(ms).start)
         \o RemoveMatches(s, Tail(ms), Head(ms).end)

\* A dict is a sequence of (key, value) entries in insertion order.
DictKeys(d) == {d[k].key : k \in DOMAIN d}

\* d[key] = value: an existing key keeps its place, a new key goes last
DictSet(d, key, value) ==
    IF key \in DictKeys(d)
    THEN [k \in DOMAIN d |->
            IF d[k].key = key THEN [key |-> key, value |-> value] ELSE d[k]]
    ELSE Append(d, [key |-> key, value |-> value])

\* ChordKey with the shift accumulator left out (position = start offset in
\* the unstripped line)
ChordKeyNoShift(chords, start, sub) ==
    LET max_position ==
            IF DictKeys(chords) # {} THEN SetMax(DictKeys(chords)) + 1 ELSE 0
    IN  Max2(max_position, start)

\* ChordKey without the max_position guard (position = start - sub, so that
\* back-to-back chords share a dict key)
ChordKeyNoBump(chords, start, sub) == start - sub

\* The position the chord of a match is stored at:
\*   max_position = max(chords.keys()) + 1 if chords.keys() else 0
\*   max(max_position, start - sub)
ChordKey(chords, start, sub) ==
    LET max_position ==
            IF DictKeys(chords) # {} THEN SetMax(DictKeys(chords)) + 1 ELSE 0
    IN  Max2(max_position, start - sub)

\* One iteration of "for match in matches": st = [chords, sub]
TokenizeStep(st, match) ==
    [chords |-> DictSet(st.chords, ChordKey(st.chords, match.start, st.sub),
                        match.chord),
     sub    |-> st.sub + (match.end - match.start)]

RECURSIVE TokenizeLoop(_, _)
TokenizeLoop(st, ms) ==
    IF ms = << >> THEN st
    ELSE TokenizeLoop(TokenizeStep(st, Head(ms)), Tail(ms))

\* AppendChords putting each new Chord first instead of last
AppendChordsReversed(chords) ==
    [k \in DOMAIN chords |->
        [position |-> chords[Len(chords) + 1 - k].key,
         name     |-> chords[Len(chords) + 1 - k].value]]

\* "for position, name in chords.items(): line.chords.append(Chord(...))"
AppendChords(chords) ==
    [k \in DOMAIN chords |->
        [position |-> chords[k].key, name |-> chords[k].value]]

\* The Line built from one line of the block (the body of "for line in lines")
StructureLine(raw) ==
    LET text == Strip(raw)
        ms   == FindBracketMatches(text, 1)
        st   == TokenizeLoop([chords |-> << >>, sub |-> 0], ms)
    IN  [text   |-> RemoveMatches(text, ms, 0),
         chords |-> AppendChords(st.chords)]

\* Variant that skips blank lines instead of storing an empty Line
convert_lyrics_skipping_blank_lines(block) ==
    LET ls == SelectSeq(SplitLines(block), LAMBDA l : Strip(l) # << >>)
    IN  [k \in DOMAIN ls |-> StructureLine(ls[k])]

\* convert_lyrics_into_song_lines(lyrics).lines for a new Song
convert_lyrics_into_song_lines(block) ==
    LET ls == SplitLines(block) IN [k \in DOMAIN ls |-> StructureLine(ls[k])]

\* Variant that keeps the lines the song had
KeepLines(ls) == ls

\* "for line in list(song.lines): session.delete(line)" and
\* song.lines.clear(): the song is left without lines (the chords of a
\* deleted line go with it, cascade "all, delete-orphan")
DeleteLines(ls) == << >>

\* Variant that replaces the lines whatever the update holds
EditedLinesAlwaysReplaced(ls, update_data) ==
    DeleteLines(ls)
    \o (IF "lyrics" \in update_data.fields
        THEN convert_lyrics_into_song_lines(update_data.lyrics) ELSE << >>)

\* song.lines after db_edit_song: replaced by the lines parsed from the new
\* lyrics (appended to the emptied song.lines) when the update holds lyrics
EditedLines(ls, update_data) ==
    IF "lyrics" \in update_data.fields
    THEN DeleteLines(ls) \o convert_lyrics_into_song_lines(update_data.lyrics)
    ELSE ls

\* The Song row after db_edit_song:
\*   song.title = update_data.get("title", song.title)
\*   song.artist_id = update_data.get("artist_id", song.artist_id)
EditedSong(row, update_data) ==
    [id        |-> row.id,
     title     |-> IF "title" \in update_data.fields
                   THEN update_data.title ELSE row.title,
     artist_id |-> IF "artist_id" \in update_data.fields
                   THEN update_data.artist_id ELSE row.artist_id]

---------------------------------------------------------------------------
(* Bulk operations on the song table: db_find_songs_by_id, db_delete_songs *)

Range(f) == {f[k] : k \in DOMAIN f}

\* The ids of the rows of a table
IdsOf(table) == {table[k].id : k \in DOMAIN table}

\* db_find_songs_by_id: select(Song).where(Song.id.in_(request.song_ids)),
\* the rows in table order; the caller sees NotFoundError when there is none
db_find_songs_by_id(table, song_ids) ==
    SelectSeq(table, LAMBDA row : row.id \in Range(song_ids))

\* Variant that deletes every row of the table
DeleteAllRows(table, songs) == << >>

\* "for song in songs: session.delete(song)" and session.commit(): the table
\* without the rows found
DeleteRows(table, songs) ==
    SelectSeq(table, LAMBDA row : row \notin Range(songs))

\* search_songs(query, limit): the first "size" hits of the ranking the
\* search index gives for the query (ids in relevance order)
search_songs(ranking, limit) == SubSeq(ranking, 1, Min2(limit, Len(ranking)))

\* "if artists: ... Song.artist_id.in_(artists)"
ArtistFilter(table, artists) ==
    SelectSeq(table, LAMBDA row : artists = {} \/ row.artist_id \in artists)

\* The rows with the ids of song_ids, in the order of song_ids
\* (songs.sort(key=lambda s: id_to_index.get(str(s.id), 0)))
RowsInOrder(table, song_ids) ==
    LET row(x) == CHOOSE r \in Range(table) : r.id = x
        kept == SelectSeq(song_ids, LAMBDA x : \E r \in Range(table) : r.id = x)
    IN  [k \in DOMAIN kept |-> row(kept[k])]

\* db_find_songs(skip, limit, search, artists, session)[0]; search tells
\* whether a search term is given
db_find_songs(table, skip, limit, search, artists, ranking) ==
    IF search
    THEN LET search_result == search_songs(ranking, limit + skip)
         IN  IF search_result = << >> THEN << >>
             ELSE RowsInOrder(ArtistFilter(table, artists), search_result)
    ELSE Slice(ArtistFilter(table, artists), skip, skip + limit)

---------------------------------------------------------------------------
(* Lyrics codecs                                                           *)

\* Variant whose offset leaves out the two brackets of each insertion
RawChordStepShortOffset(st, chord) ==
    [text |-> SliceTo(st.text, chord.position + st.add)
              \o <<"(">> \o chord.name \o <<")">>
              \o SliceFrom(st.text, chord.position + st.add),
     add  |-> st.add + Len(chord.name)]

\* One iteration of "for chord in line.chords" of the raw codec:
\* st = [text, add]; line.text is assigned the text with "(name)" spliced in
RawChordStep(st, chord) ==
    [text |-> SliceTo(st.text, chord.position + st.add)
              \o <<"(">> \o chord.name \o <<")">>
              \o SliceFrom(st.text, chord.position + st.add),
     add  |-> st.add + Len(chord.name) + 2]

RECURSIVE RawChordLoop(_, _)
RawChordLoop(st, chords) ==
    IF chords = << >> THEN st
    ELSE RawChordLoop(RawChordStep(st, Head(chords)), Tail(chords))

\* Variant that leaves the chords out of the rendered line
RawRenderLineTextOnly(line) == line

\* The Line object after the raw codec has walked it (line.text reassigned)
RawRenderLine(line) ==
    [line EXCEPT !.text = RawChordLoop([text |-> line.text, add |-> 0],
                                       line.chords).text]

\* The Line objects after convert_song_lines_into_raw_lyrics(ls)
RawRenderedLines(ls) == [k \in DOMAIN ls |-> RawRenderLine(ls[k])]

\* The string convert_song_lines_into_raw_lyrics(ls) returns
convert_song_lines_into_raw_lyrics(ls) ==
    Flatten([k \in DOMAIN ls |-> RawRenderLine(ls[k]).text \o <<NL>>])

Spaces(n) == [k \in 1..n |-> SP]

\* Variant that appends nothing after the chord name
FormattedChordStepBareName(chords_line, chord) ==
    chords_line \o Spaces(chord.position - Len(chords_line)) \o chord.name

\* Variant that leaves the padding out
FormattedChordStepNoPad(chords_line, chord) ==
    chords_line \o chord.name \o <<SP>>

\* One iteration of "for chord in line.chords" of the display codec
FormattedChordStep(chords_line, chord) ==
    LET blanks == Spaces(chord.position - Len(chords_line))
    IN  chords_line \o blanks \o chord.name \o <<SP>>

RECURSIVE FormattedChordLoop(_, _)
FormattedChordLoop(chords_line, chords) ==
    IF chords = << >> THEN chords_line
    ELSE FormattedChordLoop(FormattedChordStep(chords_line, Head(chords)),
                            Tail(chords))

\* Variant that emits a row only when it is not empty
convert_song_lines_into_nonempty_rows(ls) ==
    Flatten([k \in DOMAIN ls |->
                (IF ls[k].chords = << >> THEN << >>
                 ELSE FormattedChordLoop(<< >>, ls[k].chords) \o <<NL>>)
                \o (IF ls[k].text = << >> THEN << >> ELSE ls[k].text \o <<NL>>)])

\* The string convert_song_lines_into_formatted_lyrics(ls) returns
convert_song_lines_into_formatted_lyrics(ls) ==
    Flatten([k \in DOMAIN ls |->
                FormattedChordLoop(<< >>, ls[k].chords) \o <<NL>>
                \o ls[k].text \o <<NL>>])

---------------------------------------------------------------------------
(* PDF export: convert_songs_to_pdf, and the older create_song_pdf with its *)
(* parser convert_raw_data_into_song. A cell is recorded with the line it   *)
(* belongs to, its height and its text; page breaks (pdf.add_page) only     *)
(* move the cells that follow to a new page and are not recorded.           *)

cell_height == 3

\* Variant without the separating space between touching chord names
PdfChordStepNoSeparator(chords_line, chord) ==
    chords_line \o Spaces(chord.position - Len(chords_line)) \o chord.name

\* One iteration of "for chord in song.lines[i].chords" of convert_songs_to_pdf
PdfChordStep(chords_line, chord) ==
    LET blanks == Spaces(chord.position - Len(chords_line))
    IN  chords_line
        \o (IF blanks = << >> /\ chords_line # << >> THEN <<SP>> ELSE blanks)
        \o chord.name

RECURSIVE PdfChordsLine(_, _)
PdfChordsLine(chords_line, chords) ==
    IF chords = << >> THEN chords_line
    ELSE PdfChordsLine(PdfChordStep(chords_line, Head(chords)), Tail(chords))

\* Variant that emits the lyric cell only for a line that has text
PdfLineCellsTextOnly(ls, i) ==
    LET chords_line == PdfChordsLine(<< >>, ls[i].chords)
    IN  IF ls[i].text = << >> /\ chords_line = << >>
        THEN <<[line |-> i, h |-> 2 * cell_height, text |-> << >>]>>
        ELSE <<[line |-> i, h |-> cell_height, text |-> chords_line]>>
             \o (IF ls[i].text # << >>
                  THEN <<[line |-> i, h |-> cell_height, text |-> ls[i].text]>>
                  ELSE << >>)

\* The cells convert_songs_to_pdf emits for line i of a song (i is 1-based
\* here, so "i < len(song.lines) - 1" reads i < Len(ls))
PdfLineCells(ls, i) ==
    LET chords_line == PdfChordsLine(<< >>, ls[i].chords)
        end_of_pure_chords_block ==
            /\ chords_line # << >>
            /\ ls[i].text = << >>
            /\ i < Len(ls)
            /\ ls[i + 1].text # << >>
    IN  IF ls[i].text = << >> /\ chords_line = << >>
        THEN <<[line |-> i, h |-> 2 * cell_height, text |-> << >>]>>
        ELSE <<[line |-> i, h |-> cell_height, text |-> chords_line]>>
             \o (IF ls[i].text # << >> \/ end_of_pure_chords_block
                  THEN <<[line |-> i, h |-> cell_height, text |-> ls[i].text]>>
                  ELSE << >>)

\* The cells of the lines of one song, in the order they are emitted
convert_songs_to_pdf(ls) == Flatten([i \in DOMAIN ls |-> PdfLineCells(ls, i)])

\* One iteration of "for match in matches" of convert_raw_data_into_song:
\* chords sharing a position are joined into one label "X Y"
RawDataStep(st, match) ==
    LET key == match.start - st.sub
        old == {st.chords[k].value : k \in {j \in DOMAIN st.chords :
                                               st.chords[j].key = key}}
    IN  [chords |-> DictSet(st.chords, key,
                            IF old = {} THEN match.chord
                            ELSE (CHOOSE v \in old : TRUE) \o <<SP>> \o match.chord),
         sub    |-> st.sub + (match.end - match.start)]

RECURSIVE RawDataLoop(_, _)
RawDataLoop(st, ms) ==
    IF ms = << >> THEN st
    ELSE RawDataLoop(RawDataStep(st, Head(ms)), Tail(ms))

\* convert_raw_data_into_song(...).lines; Line.line is kept as text and the
\* items of the dict Line.chords as (position, name) in insertion order
convert_raw_data_into_song(raw_lines) ==
    [k \in DOMAIN raw_lines |->
        LET line == Strip(raw_lines[k])
            ms   == FindBracketMatches(line, 1)
            st   == RawDataLoop([chords |-> << >>, sub |-> 0], ms)
        IN  [text   |-> RemoveMatches(line, ms, 0),
             chords |-> [j \in DOMAIN st.chords |->
                           [position |-> st.chords[j].key,
                            name     |-> st.chords[j].value]]]]

\* convert_line_chords_to_string(line)
convert_line_chords_to_string(line) == PdfChordsLine(<< >>, line.chords)

\* The cells create_song_pdf emits for the lines of one song
create_song_pdf(ls) ==
    Flatten([i \in DOMAIN ls |->
        LET chords_line == convert_line_chords_to_string(ls[i])
            end_of_pure_chords_block ==
                /\ chords_line # << >>
                /\ ls[i].text = << >>
                /\ i < Len(ls)
                /\ ls[i + 1].text # << >>
        IN  IF ls[i].text = << >> /\ chords_line = << >>
            THEN <<[line |-> i, h |-> 2 * cell_height, text |-> << >>]>>
            ELSE <<[line |-> i, h |-> cell_height, text |-> chords_line]>>
                 \o (IF ls[i].text # << >> \/ end_of_pure_chords_block
                      THEN <<[line |-> i, h |-> cell_height, text |-> ls[i].text]>>
                      ELSE << >>)])

---------------------------------------------------------------------------
(* Format normalizer: normalize_lyrics and its helpers                     *)

\* is_chord_line(line): more than 60% of the tokens are bare chords
is_chord_line(line) ==
    LET tokens == Split(Strip(line))
        n == Cardinality({k \in DOMAIN tokens : CHORD_REGEX_fullmatch(tokens[k])})
    IN  IF tokens = << >> THEN FALSE
        ELSE 10 * n > 6 * Len(tokens)

RECURSIVE InlineFrom(_, _)
\* Whether ((?:\bCHORD\b\s+)*)CHORD[^\s] matches s at index i
InlineFrom(s, i) ==
    LET ends == ChordParses(s, i)
    IN  \/ \E k \in DOMAIN ends :
              /\ ends[k] <= Len(s)
              /\ s[ends[k]] \notin WhitespaceChars
        \/ /\ WordBoundary(s, i)
           /\ \E k \in DOMAIN ends :
                 /\ WordBoundary(s, ends[k])
                 /\ \E j \in (ends[k] + 1)..Len(s) :
                       /\ \A w \in ends[k]..(j - 1) : s[w] \in WhitespaceChars
                       /\ InlineFrom(s, j)

\* is_inline_chord_lyrics(line)
is_inline_chord_lyrics(line) == InlineFrom(Strip(line), 1)

\* the first match of CHORD_REGEX at index i of s: the index just past it,
\* or 0
BareMatchEnd(s, i) ==
    IF ~WordBoundary(s, i) THEN 0
    ELSE FirstIn(ChordParses(s, i),
                 {e \in 1..(Len(s) + 1) : WordBoundary(s, e)})

RECURSIVE FindBareMatches(_, _)
\* [(m.start(), m.group()) for m in CHORD_REGEX.finditer(s)] from index i
FindBareMatches(s, i) ==
    IF i > Len(s) THEN << >>
    ELSE LET e == BareMatchEnd(s, i)
         IN  IF e = 0 THEN FindBareMatches(s, i + 1)
             ELSE <<[start |-> i - 1, chord |-> SubSeq(s, i, e - 1)]>>
                  \o FindBareMatches(s, e)

RECURSIVE MergeLoop(_, _, _, _)
\* the "while i < len(lyric_line)" loop; i is the Python index
MergeLoop(lyric_line, chords, i, chord_idx) ==
    IF i >= Len(lyric_line) THEN << >>
    ELSE IF chord_idx <= Len(chords) /\ i = chords[chord_idx].start
         THEN <<"(">> \o chords[chord_idx].chord \o <<")">>
              \o <<lyric_line[i + 1]>>
              \o MergeLoop(lyric_line, chords, i + 1, chord_idx + 1)
         ELSE <<lyric_line[i + 1]>>
              \o MergeLoop(lyric_line, chords, i + 1, chord_idx)

\* merge_chord_and_lyric_lines(chord_line, lyric_line)
merge_chord_and_lyric_lines(chord_line, lyric_line) ==
    MergeLoop(lyric_line, FindBareMatches(chord_line, 1), 0, 1)

RECURSIVE WordRun(_, _)
\* length of the run of \w characters of s starting at index j
WordRun(s, j) == IF Char(s, j) \in WordChars THEN 1 + WordRun(s, j + 1) ELSE 0

\* re.match("^(CHORD)(\w+)", token): the index just past group(1), or 0
GluedMatchEnd(token) ==
    FirstIn(ChordParses(token, 1),
            {e \in 1..Len(token) : token[e] \in WordChars})

RECURSIVE EmbedLoop(_, _, _)
\* "for token in tokens" of embed_inline_chords, from token k on, with the
\* chords collected so far: [chords, lyrics_tokens] when the loop is left
EmbedLoop(tokens, k, chords) ==
    IF k > Len(tokens) THEN [chords |-> chords, lyrics_tokens |-> << >>]
    ELSE IF CHORD_REGEX_fullmatch(tokens[k])
         THEN EmbedLoop(tokens, k + 1, Append(chords, tokens[k]))
    ELSE IF GluedMatchEnd(tokens[k]) # 0
         THEN LET e == GluedMatchEnd(tokens[k])
              IN  [chords |-> Append(chords, SubSeq(tokens[k], 1, e - 1)),
                   lyrics_tokens |->
                       <<SubSeq(tokens[k], e, e + WordRun(tokens[k], e) - 1)>>]
    ELSE [chords |-> chords, lyrics_tokens |-> <<tokens[k]>>]

\* tokens[n:] for a list, n >= -1 (a negative n counts from the end)
ListFrom(tokens, n) ==
    IF n < 0 THEN SubSeq(tokens, Max2(Len(tokens) + n, 0) + 1, Len(tokens))
    ELSE SubSeq(tokens, Min2(n, Len(tokens)) + 1, Len(tokens))

\* embed_inline_chords(line)
embed_inline_chords(line) ==
    LET tokens == Split(Strip(line))
        lp == EmbedLoop(tokens, 1, << >>)
        lyrics_tokens ==
            lp.lyrics_tokens
            \o ListFrom(tokens, Len(lp.chords) + Len(lp.lyrics_tokens) - 1)
        chord_part ==
            Flatten([k \in DOMAIN lp.chords |->
                        <<"(">> \o lp.chords[k] \o <<")">>])
        lyrics_part == Join(<<SP>>, lyrics_tokens)
    IN  Strip(chord_part \o <<SP>> \o lyrics_part)

\* A loop that applies the inline-glued test before the chord-line test
RECURSIVE NormalizeLoopInlineFirst(_, _)
NormalizeLoopInlineFirst(ls, i) ==
    IF i > Len(ls) THEN << >>
    ELSE IF is_inline_chord_lyrics(ls[i])
         THEN <<embed_inline_chords(ls[i])>>
              \o NormalizeLoopInlineFirst(ls, i + 1)
    ELSE IF i + 1 <= Len(ls) /\ is_chord_line(ls[i])
         THEN <<merge_chord_and_lyric_lines(ls[i], ls[i + 1])>>
              \o NormalizeLoopInlineFirst(ls, i + 2)
    ELSE <<ls[i]>> \o NormalizeLoopInlineFirst(ls, i + 1)

RECURSIVE NormalizeLoop(_, _)
\* "for i, line in enumerate(lines)" of normalize_lyrics from line i
\* (1-based) on, skip_next being False: the entries appended to result
NormalizeLoop(ls, i) ==
    IF i > Len(ls) THEN << >>
    ELSE IF i + 1 <= Len(ls) /\ is_chord_line(ls[i])
         THEN <<merge_chord_and_lyric_lines(ls[i], ls[i + 1])>>
              \o NormalizeLoop(ls, i + 2)
    ELSE IF is_inline_chord_lyrics(ls[i])
         THEN <<embed_inline_chords(ls[i])>> \o NormalizeLoop(ls, i + 1)
    ELSE <<ls[i]>> \o NormalizeLoop(ls, i + 1)

\* The branch the loop of normalize_lyrics takes at each line of the input:
\* "merge" for a chord line with a line after it, "skipped" for the line
\* that merge consumed (skip_next), "inline" for a line rewritten by
\* embed_inline_chords, "plain" for a line passed through
RECURSIVE NormalizeBranches(_, _)
NormalizeBranches(ls, i) ==
    IF i > Len(ls) THEN << >>
    ELSE IF i + 1 <= Len(ls) /\ is_chord_line(ls[i])
         THEN <<"merge", "skipped">> \o NormalizeBranches(ls, i + 2)
    ELSE IF is_inline_chord_lyrics(ls[i])
         THEN <<"inline">> \o NormalizeBranches(ls, i + 1)
    ELSE <<"plain">> \o NormalizeBranches(ls, i + 1)

\* the list "result" of normalize_lyrics(block) before it is joined
NormalizedRows(block) == NormalizeLoop(SplitLines(block), 1)

\* normalize_lyrics(block)
normalize_lyrics(block) == Join(<<NL>>, NormalizedRows(block))

---------------------------------------------------------------------------
(* Bounded inputs                                                          *)

MaxPieces == 4      \* pieces per bracket-notation lyrics block
MaxCalls == 2       \* render calls made on one loaded Song

\* No ChordEditor window is open
NoEditor == [song_id_map |-> << >>, selected_song_ids |-> << >>,
             current_song_id |-> 0, curselection |-> {}]

\* Song(title=title, artist_id=artist_id) before it is given a title, an
\* artist and, by the database, an id
UnsavedSong == [id |-> 0, title |-> "", artist_id |-> 0]

RECURSIVE Concats(_, _)
\* every concatenation of at most n pieces of P
Concats(P, n) ==
    IF n = 0 THEN {<< >>}
    ELSE LET prev == Concats(P, n - 1)
         IN  prev \cup {p \o q : p \in prev, q \in P}

\* Building blocks of bracket-notation lyrics: two chords of different
\* length, a lyric character, whitespace, a line break and loose brackets.
BracketPieces ==
    { <<"(", "A", ")">>, <<"(", "D", "m", ")">>, <<"x">>,
      <<SP>>, <<NL>>, <<"(">>, <<")">> }

BracketLyrics == Concats(BracketPieces, MaxPieces)

---------------------------------------------------------------------------
(* Sequential use: a block is structured into a Song, whose lines are then *)
(* rendered by the read models (SongReadForEdit / SongReadForDisplay).     *)

\* Blocks taken from the tests and the grammar: the lyrics of
\* test_db_edit_song_with_lyrics, two lines with chords at 0 and 5 as
\* populate_test_db builds them, a line annotated C1 at 0 and C2 at 5, and
\* parenthesised content outside the chord grammar
BracketExamples ==
    {
      <<"(", "A", "m", ")", "S", "o", "n", "g", " ", "(", "D", "m", ")",
        "L", "i", "n", "e", " ", "1", "\n", "(", "A", "m", ")", "S", "o",
        "n", "g", " ", "(", "D", "m", ")", "L", "i", "n", "e", " ", "2">>,
      <<"(", "C", ")", "S", "u", "n", "s", "h", "(", "D", "m", ")", "i",
        "n", "e", "\n", "(", "E", "m", ")", "D", "a", "n", "c", "i", "(",
        "F", ")", "n", "g">>,
      <<"(", "C", "1", ")", "H", "e", "l", "l", "o", "(", "C", "2", ")",
        " ", "w", "o", "r", "l", "d">>,
      <<"(", "H", "m", ")", "x", "(", "C", "#", "#", ")", "y", "(", "h",
        "e", "l", "l", "o", ")", "(", "A", "m", ")">> }

Init ==
    /\ lyrics \in BracketLyrics \cup BracketExamples
    /\ lines = << >>
    /\ results = << >>
    /\ pc = "start"
    /\ threads = << >>
    /\ song = UnsavedSong
    /\ db = << >>
    /\ gui = NoEditor

\* song = convert_lyrics_into_song_lines(lyrics)
Structure ==
    /\ pc = "start"
    /\ lines' = convert_lyrics_into_song_lines(lyrics)
    /\ pc' = "structured"
    /\ UNCHANGED <<db, gui, song, lyrics, results, threads>>

\* SongReadForEdit.lyrics: convert_song_lines_into_raw_lyrics(self._lines)
RenderRaw ==
    /\ pc = "structured"
    /\ Len(results) < MaxCalls
    /\ results' = Append(results,
            [op |-> "raw", value |-> convert_song_lines_into_raw_lyrics(lines)])
    /\ lines' = RawRenderedLines(lines)
    /\ UNCHANGED <<db, gui, song, lyrics, pc, threads>>

\* SongReadForDisplay.lyrics:
\* convert_song_lines_into_formatted_lyrics(self._lines)
RenderFormatted ==
    /\ pc = "structured"
    /\ Len(results) < MaxCalls
    /\ results' = Append(results,
            [op |-> "formatted",
             value |-> convert_song_lines_into_formatted_lyrics(lines)])
    /\ UNCHANGED <<db, gui, song, lyrics, lines, pc, threads>>

Next == Structure \/ RenderRaw \/ RenderFormatted

Spec == Init /\ [][Next]_vars

---------------------------------------------------------------------------
(* Concurrent use: two render calls walk the lines of the same Song, one   *)
(* loop iteration at a time (a thread switch can fall between any two      *)
(* iterations of "for chord in line.chords").                              *)

MaxConcPieces == 3  \* pieces per lyrics block of a concurrently read Song

Threads == {"t1", "t2"}
Codecs == {"raw", "formatted"}

ConcPieces == { <<"(", "A", ")">>, <<"(", "D", "m", ")">>, <<"x">>, <<NL>> }

ConcLyrics == Concats(ConcPieces, MaxConcPieces)

\* The locals of a render call that has just been entered
EnterCall(codec) ==
    [op |-> codec, li |-> 1, ci |-> 1, add |-> 0, chords_line |-> << >>,
     result |-> << >>, state |-> "running"]

ConcInit ==
    /\ lyrics \in ConcLyrics
    /\ lines = convert_lyrics_into_song_lines(lyrics)
    /\ results = << >>
    /\ pc = "loaded"
    /\ threads \in [Threads -> {EnterCall(c) : c \in Codecs}]
    /\ song = UnsavedSong
    /\ db = << >>
    /\ gui = NoEditor

InChordLoop(t) ==
    /\ threads[t].state = "running"
    /\ threads[t].li <= Len(lines)
    /\ threads[t].ci <= Len(lines[threads[t].li].chords)

\* One iteration of "for chord in line.chords" of the raw codec, on the
\* shared Line object
RawChord(t) ==
    /\ InChordLoop(t)
    /\ threads[t].op = "raw"
    /\ LET th == threads[t]
           st == RawChordStep([text |-> lines[th.li].text, add |-> th.add],
                              lines[th.li].chords[th.ci])
       IN  /\ lines' = [lines EXCEPT ![th.li].text = st.text]
           /\ threads' = [threads EXCEPT ![t].add = st.add,
                                         ![t].ci = th.ci + 1]
    /\ UNCHANGED <<db, gui, song, lyrics, results, pc>>

\* One iteration of "for chord in line.chords" of the display codec
FormattedChord(t) ==
    /\ InChordLoop(t)
    /\ threads[t].op = "formatted"
    /\ LET th == threads[t]
       IN  threads' = [threads EXCEPT
                ![t].chords_line =
                    FormattedChordStep(th.chords_line, lines[th.li].chords[th.ci]),
                ![t].ci = th.ci + 1]
    /\ UNCHANGED <<db, gui, song, lyrics, lines, results, pc>>

\* End of the chord loop of a line: "result += ..." and on to the next line
LineDone(t) ==
    /\ threads[t].state = "running"
    /\ threads[t].li <= Len(lines)
    /\ threads[t].ci > Len(lines[threads[t].li].chords)
    /\ LET th == threads[t]
           row == IF th.op = "raw"
                  THEN lines[th.li].text \o <<NL>>
                  ELSE th.chords_line \o <<NL>> \o lines[th.li].text \o <<NL>>
       IN  threads' = [threads EXCEPT ![t].result = th.result \o row,
                                      ![t].li = th.li + 1,
                                      ![t].ci = 1,
                                      ![t].add = 0,
                                      ![t].chords_line = << >>]
    /\ UNCHANGED <<db, gui, song, lyrics, lines, results, pc>>

\* "return result"
Return(t) ==
    /\ threads[t].state = "running"
    /\ threads[t].li > Len(lines)
    /\ results' = Append(results, [op |-> threads[t].op,
                                   value |-> threads[t].result])
    /\ threads' = [threads EXCEPT ![t].state = "returned"]
    /\ UNCHANGED <<db, gui, song, lyrics, lines, pc>>

ConcNext ==
    \E t \in Threads :
        RawChord(t) \/ FormattedChord(t) \/ LineDone(t) \/ Return(t)

SpecConc == ConcInit /\ [][ConcNext]_vars

---------------------------------------------------------------------------
(* Normalization: a mixed-notation block is normalized, and the output is  *)
(* fed to normalize_lyrics again.                                          *)

MaxNormPieces == 4  \* pieces per mixed-notation lyrics block

\* Building blocks of mixed-notation lyrics: a chord root, a quality, an
\* accidental, a lyric character, whitespace, a line break and a bracket
\* chord.
NormPieces ==
    { <<"A">>, <<"m">>, <<"#">>, <<"x">>, <<SP>>, <<NL>>, <<"(", "A", ")">> }

\* "D A A7 DHey Jude" (docstring of embed_inline_chords), "Good day",
\* "C G" above "Hello world", "G D F#" above "la la la" and "Am" above "Ax"
NormExamples ==
    { <<"D", " ", "A", " ", "A", "7", " ", "D", "H", "e", "y", " ",
        "J", "u", "d", "e">>,
      <<"G", "o", "o", "d", " ", "d", "a", "y">>,
      <<"C", " ", "G", "\n", "H", "e", "l", "l", "o", " ",
        "w", "o", "r", "l", "d">>,
      <<"G", " ", "D", " ", "F", "#", "\n", "l", "a", " ", "l", "a", " ",
        "l", "a">>,
      <<"A", "m", "\n", "A", "x">> }

NormLyrics == Concats(NormPieces, MaxNormPieces) \cup NormExamples

NormInit ==
    /\ lyrics \in NormLyrics
    /\ lines = << >>
    /\ results = << >>
    /\ pc = "raw_input"
    /\ threads = << >>
    /\ song = UnsavedSong
    /\ db = << >>
    /\ gui = NoEditor

\* normalize_lyrics(lyrics) on the submitted block
Normalize ==
    /\ pc = "raw_input"
    /\ results' = <<[op |-> "normalize", rows |-> NormalizedRows(lyrics),
                     branches |-> NormalizeBranches(SplitLines(lyrics), 1),
                     value |-> normalize_lyrics(lyrics)]>>
    /\ pc' = "normalized"
    /\ UNCHANGED <<db, gui, song, lyrics, lines, threads>>

\* normalize_lyrics applied to the output of the previous call
NormalizeAgain ==
    /\ pc = "normalized"
    /\ Len(results) < MaxCalls
    /\ results' = Append(results,
            [op |-> "normalize",
             rows |-> NormalizedRows(results[Len(results)].value),
             branches |-> NormalizeBranches(
                              SplitLines(results[Len(results)].value), 1),
             value |-> normalize_lyrics(results[Len(results)].value)])
    /\ UNCHANGED <<db, gui, song, lyrics, lines, pc, threads>>

NormNext == Normalize \/ NormalizeAgain

SpecNorm == NormInit /\ [][NormNext]_vars

---------------------------------------------------------------------------
(* Chord grammar: one token is put to the bracketed-form matcher and to    *)
(* the bare-form matcher.                                                  *)

MaxTokenPieces == 4 \* pieces per chord token candidate

\* roots, accidentals, qualities, a digit, the bass separator, and a letter
\* outside the grammar
TokenPieces ==
    { <<"A">>, <<"C">>, <<"#">>, <<"b">>, <<"m">>, <<"s", "u", "s">>,
      <<"7">>, <<"/">>, <<"H">> }

\* Tokens the grammar is documented with: four chords and three non-chords
GrammarExamples ==
    { <<"A", "m">>, <<"C", "#", "m", "a", "j", "7">>, <<"B", "m", "/", "A">>,
      <<"G", "s", "u", "s", "4">>, <<"H", "m">>, <<"1", "2", "3">>,
      <<"C", "#", "#">> }

ChordTokens == Concats(TokenPieces, MaxTokenPieces) \cup GrammarExamples

GrammarInit ==
    /\ lyrics \in ChordTokens
    /\ lines = << >>
    /\ results = << >>
    /\ pc = "token"
    /\ threads = << >>
    /\ song = UnsavedSong
    /\ db = << >>
    /\ gui = NoEditor

Asked(form) == \E k \in DOMAIN results : results[k].op = form

\* re.fullmatch(CHORDS_PATTERN, f"({token})")
MatchBracketed ==
    /\ pc = "token"
    /\ ~Asked("bracketed")
    /\ results' = Append(results, [op |-> "bracketed",
                                   value |-> BracketedAccepts(lyrics)])
    /\ UNCHANGED <<db, gui, song, lyrics, lines, pc, threads>>

\* CHORD_REGEX.fullmatch(token)
MatchBare ==
    /\ pc = "token"
    /\ ~Asked("bare")
    /\ results' = Append(results, [op |-> "bare",
                                   value |-> CHORD_REGEX_fullmatch(lyrics)])
    /\ UNCHANGED <<db, gui, song, lyrics, lines, pc, threads>>

GrammarNext == MatchBracketed \/ MatchBare

SpecGrammar == GrammarInit /\ [][GrammarNext]_vars

---------------------------------------------------------------------------
(* PDF export of a song: the API route renders the stored Song with         *)
(* convert_songs_to_pdf, the desktop editor parses its text with            *)
(* get_song_from_string and renders it with create_song_pdf.                *)

MaxPdfPieces == 4

\* a chord, a lyric character, a space and a line break
PdfPieces == { <<"(", "A", ")">>, <<"x">>, <<SP>>, <<NL>> }

PdfLyrics == Concats(PdfPieces, MaxPdfPieces)

PdfInit ==
    /\ lyrics \in PdfLyrics
    /\ lines = convert_lyrics_into_song_lines(lyrics)
    /\ results = << >>
    /\ pc = "stored"
    /\ threads = << >>
    /\ song = UnsavedSong
    /\ db = << >>
    /\ gui = NoEditor

\* POST /songs/to_pdf: convert_songs_to_pdf(pdf, songs)
ExportPdf ==
    /\ pc = "stored"
    /\ results' = <<[op |-> "pdf", song |-> lines,
                     cells |-> convert_songs_to_pdf(lines)]>>
    /\ pc' = "exported"
    /\ UNCHANGED <<db, gui, song, lyrics, lines, threads>>

\* create_song_pdf(pdf, [get_song_from_string(text)]): the song text is the
\* part of the editor text after the title and artist lines
CreateSongPdf ==
    /\ pc = "stored"
    /\ LET parsed == convert_raw_data_into_song(SplitLines(lyrics))
       IN  results' = <<[op |-> "gui_pdf", song |-> parsed,
                         cells |-> create_song_pdf(parsed)]>>
    /\ pc' = "exported"
    /\ UNCHANGED <<db, gui, song, lyrics, lines, threads>>

PdfNext == ExportPdf \/ CreateSongPdf

SpecPdf == PdfInit /\ [][PdfNext]_vars

---------------------------------------------------------------------------
(* Editing a stored song: db_edit_song. The song was created from lyrics   *)
(* by db_create_song; its lines are read back in the order they were       *)
(* inserted. results holds the record of the call.                         *)

MaxEditPieces == 2

EditPieces == { <<"(", "A", ")">>, <<"x">>, <<NL>> }

EditLyrics == Concats(EditPieces, MaxEditPieces) \cup BracketExamples

Titles == {"Title A", "Title B"}
ArtistIds == {1, 2}
SongIds == {1, 2}
Fields == {"title", "artist_id", "lyrics"}

\* song_data.model_dump(exclude_unset=True): the fields the request sets and
\* their values (a field that is not set carries no value of its own)
Updates ==
    {u \in [fields : SUBSET Fields, title : Titles, artist_id : ArtistIds,
             lyrics : EditLyrics] :
        /\ "title" \notin u.fields => u.title = "Title A"
        /\ "artist_id" \notin u.fields => u.artist_id = 1
        /\ "lyrics" \notin u.fields => u.lyrics = << >>}

\* db_create_song has stored the song and its lines
EditInit ==
    /\ lyrics \in EditLyrics
    /\ lines = convert_lyrics_into_song_lines(lyrics)
    /\ song \in [id : {1}, title : Titles, artist_id : ArtistIds]
    /\ db = << >>
    /\ gui = NoEditor
    /\ results = << >>
    /\ pc = "stored"
    /\ threads = << >>

\* db_edit_song(song_id, song_data, session)
EditSong(song_id, update_data) ==
    /\ pc = "stored"
    /\ IF song_id # song.id
       THEN \* db_find_song raises NotFoundError
            /\ results' = <<[op |-> "edit", song_id |-> song_id,
                             update_data |-> update_data,
                             song_before |-> song, lines_before |-> lines,
                             error |-> "NotFoundError"]>>
            /\ UNCHANGED <<db, gui, song, lyrics, lines>>
       ELSE /\ lines' = EditedLines(lines, update_data)
            /\ song' = EditedSong(song, update_data)
            /\ lyrics' = IF "lyrics" \in update_data.fields
                         THEN update_data.lyrics ELSE lyrics
            /\ results' = <<[op |-> "edit", song_id |-> song_id,
                             update_data |-> update_data,
                             song_before |-> song, lines_before |-> lines,
                             error |-> "none"]>>
    /\ pc' = "edited"
    /\ UNCHANGED <<db, gui, threads>>

EditNext == \E song_id \in SongIds, update_data \in Updates :
                EditSong(song_id, update_data)

SpecEdit == EditInit /\ [][EditNext]_vars

---------------------------------------------------------------------------
(* Deleting stored songs: db_delete_songs on a table of songs.             *)

MaxSongs == 3
MaxIds == 2

RECURSIVE SeqsUpTo(_, _)
\* every sequence of at most n elements of S
SeqsUpTo(S, n) ==
    IF n = 0 THEN {<< >>}
    ELSE LET prev == SeqsUpTo(S, n - 1)
         IN  prev \cup {Append(q, x) : q \in prev, x \in S}

RECURSIVE TableOf(_, _)
\* The rows of the songs with the ids of S, in id order, with artists a
TableOf(S, a) ==
    IF S = {} THEN << >>
    ELSE LET m == SetMax(S)
         IN  Append(TableOf(S \ {m}, a), [id |-> m, artist_id |-> a[m]])

\* The song tables with ids among 1..MaxSongs
Tables ==
    {TableOf(S, a) : S \in SUBSET (1..MaxSongs),
                     a \in [1..MaxSongs -> ArtistIds]}

\* request.song_ids: ids of stored songs and of songs that do not exist
IdLists == SeqsUpTo(1..(MaxSongs + 1), MaxIds)

DeleteInit ==
    /\ lyrics = << >>
    /\ lines = << >>
    /\ results = << >>
    /\ pc = "stored"
    /\ threads = << >>
    /\ song = UnsavedSong
    /\ db \in Tables
    /\ gui = NoEditor

\* db_delete_songs(request, session)
DeleteSongs(song_ids) ==
    /\ pc = "stored"
    /\ LET songs == db_find_songs_by_id(db, song_ids)
       IN  IF songs = << >>
           THEN /\ results' = <<[op |-> "delete", song_ids |-> song_ids,
                                 db_before |-> db, value |-> << >>,
                                 error |-> "Songs with such IDs were not found"]>>
                /\ db' = db
           ELSE /\ results' = <<[op |-> "delete", song_ids |-> song_ids,
                                 db_before |-> db, value |-> songs,
                                 error |-> "none"]>>
                /\ db' = DeleteRows(db, songs)
    /\ pc' = "deleted"
    /\ UNCHANGED <<gui, song, lyrics, lines, threads>>

DeleteNext == \E song_ids \in IdLists : DeleteSongs(song_ids)

SpecDelete == DeleteInit /\ [][DeleteNext]_vars

---------------------------------------------------------------------------
(* Listing stored songs: db_find_songs / db_read_songs with pagination,    *)
(* with and without a search term. The search index ranks stored songs.    *)

MaxSkip == 2
MaxLimit == 2

\* The rankings the search index can give: stored ids, each at most once
Rankings(table) ==
    {q \in SeqsUpTo(IdsOf(table), Len(table)) :
        \A a, b \in DOMAIN q : a # b => q[a] # q[b]}

FindInit ==
    /\ lyrics = << >>
    /\ lines = << >>
    /\ results = << >>
    /\ pc = "stored"
    /\ threads = << >>
    /\ song = UnsavedSong
    /\ db \in Tables
    /\ gui = NoEditor

\* db_read_songs(skip, limit, search, session, artists, display): one
\* representation per song db_find_songs returns, in the same order
FindSongs(skip, limit, search, artists, ranking) ==
    /\ pc = "stored"
    /\ search \/ ranking = << >>
    /\ results' = <<[op |-> "find", skip |-> skip, limit |-> limit,
                     search |-> search, artists |-> artists,
                     ranking |-> ranking,
                     value |-> db_find_songs(db, skip, limit, search,
                                             artists, ranking)]>>
    /\ pc' = "found"
    /\ UNCHANGED <<db, gui, song, lyrics, lines, threads>>

FindNext ==
    \E skip \in 0..MaxSkip, limit \in 0..MaxLimit, search \in BOOLEAN,
       artists \in SUBSET ArtistIds, ranking \in Rankings(db) :
        FindSongs(skip, limit, search, artists, ranking)

SpecFind == FindInit /\ [][FindNext]_vars

---------------------------------------------------------------------------
(* The desktop editor: one ChordEditor window working on the song table    *)
(* through the API. gui holds the editor's fields and the listbox          *)
(* selection (1-based indices into song_id_map); results holds the value   *)
(* of the table's id sequence.                                             *)

\* The ids GET /songs?display=short lists, in table order
ListedIds(table) == [k \in DOMAIN table |-> table[k].id]

\* refresh_song_library: the listbox is emptied and filled again, so no
\* item is selected, and song_id_map maps each index to the listed id
RefreshedLibrary(editor, table) ==
    [editor EXCEPT !.song_id_map = ListedIds(table), !.curselection = {}]

\* clear_editor
ClearedEditor(editor) == [editor EXCEPT !.current_song_id = 0]

\* [self.song_id_map[i] for i in selection], the selection in index order
RECURSIVE IdsAt(_, _)
IdsAt(map, selection) ==
    IF selection = {} THEN << >>
    ELSE LET i == SetMax(selection)
         IN  Append(IdsAt(map, selection \ {i}), map[i])

\* ChordEditor(): the library is loaded from the stored songs
GuiInit ==
    /\ db \in {TableOf(S, [i \in 1..MaxSongs |-> 1]) :
                 S \in SUBSET (1..MaxSongs)}
    /\ gui = RefreshedLibrary(NoEditor, db)
    /\ results = <<[op |-> "song_id_seq", value |-> SetMax(IdsOf(db) \cup {0})]>>
    /\ lyrics = << >>
    /\ lines = << >>
    /\ pc = "editor"
    /\ threads = << >>
    /\ song = UnsavedSong

\* on_song_select after the user changed the listbox selection
OnSongSelect(selection) ==
    /\ pc = "editor"
    /\ gui.song_id_map # << >>
    /\ gui' = [gui EXCEPT !.curselection = selection,
                          !.selected_song_ids = IdsAt(gui.song_id_map, selection)]
    /\ UNCHANGED <<db, results, song, lyrics, lines, pc, threads>>

\* on_song_double_click: the first selected song is fetched for editing
OnSongDoubleClick ==
    /\ pc = "editor"
    /\ gui.curselection # {}
    /\ LET song_id == gui.song_id_map[SetMin(gui.curselection)]
       IN  gui' = IF song_id \in IdsOf(db)
                  THEN [gui EXCEPT !.current_song_id = song_id]
                  ELSE gui
    /\ UNCHANGED <<db, results, song, lyrics, lines, pc, threads>>

\* save_song with no song loaded and title, artist and lyrics filled in:
\* POST /songs, then refresh_song_library() and clear_editor()
SaveNewSong ==
    /\ pc = "editor"
    /\ gui.current_song_id = 0
    /\ results[1].value < MaxSongs
    /\ LET id == results[1].value + 1
       IN  /\ db' = Append(db, [id |-> id, artist_id |-> 1])
           /\ results' = <<[op |-> "song_id_seq", value |-> id]>>
    /\ gui' = ClearedEditor(RefreshedLibrary(gui, db'))
    /\ UNCHANGED <<song, lyrics, lines, pc, threads>>

\* save_song with a song loaded: PUT /songs/{current_song_id}, then
\* refresh_song_library() and clear_editor(); a failed request changes
\* nothing
UpdateSong ==
    /\ pc = "editor"
    /\ gui.current_song_id # 0
    /\ gui' = IF gui.current_song_id \in IdsOf(db)
              THEN ClearedEditor(RefreshedLibrary(gui, db))
              ELSE gui
    /\ UNCHANGED <<db, results, song, lyrics, lines, pc, threads>>

\* delete_selected_songs, confirmed: DELETE /songs with selected_song_ids,
\* then refresh_song_library() and clear_editor(); a failed request (no
\* song with such ids) changes nothing
DeleteSelectedSongs ==
    /\ pc = "editor"
    /\ gui.selected_song_ids # << >>
    /\ LET songs == db_find_songs_by_id(db, gui.selected_song_ids)
       IN  IF songs = << >>
           THEN UNCHANGED <<db, gui>>
           ELSE /\ db' = DeleteRows(db, songs)
                /\ gui' = ClearedEditor(RefreshedLibrary(gui, db'))
    /\ UNCHANGED <<results, song, lyrics, lines, pc, threads>>

\* "New Song": clear_editor
NewSong ==
    /\ pc = "editor"
    /\ gui' = ClearedEditor(gui)
    /\ UNCHANGED <<db, results, song, lyrics, lines, pc, threads>>

GuiNext ==
    \/ \E selection \in SUBSET (1..MaxSongs) :
          /\ selection \subseteq DOMAIN gui.song_id_map
          /\ OnSongSelect(selection)
    \/ OnSongDoubleClick
    \/ SaveNewSong
    \/ UpdateSong
    \/ DeleteSelectedSongs
    \/ NewSong

SpecGui == GuiInit /\ [][GuiNext]_vars

---------------------------------------------------------------------------
(* Stored lines: a song whose Line and Chord rows were written directly,   *)
(* as populate_test_db writes them, is read for editing and its lyrics     *)
(* sent back through db_edit_song, or read for display and exported.       *)

MaxTextPieces == 2   \* pieces per stored line text
MaxChords == 2       \* chords per stored line

\* a lyric character, a space, parentheses and a bracket chord
TextPieces == { <<"x">>, <<SP>>, <<"(">>, <<")">>, <<"(", "A", ")">> }

StoredTexts == Concats(TextPieces, MaxTextPieces)

StoredChords ==
    [position : 0..(MaxChords + 1), name : { <<"A">>, <<"D", "m">> }]

StoredLines == [text : StoredTexts, chords : SeqsUpTo(StoredChords, MaxChords)]

\* "Sunshine" and "Dancing" with chords at 0 and 5
StoredExamples ==
    { <<[text |-> <<"S", "u", "n", "s", "h", "i", "n", "e">>,
         chords |-> <<[position |-> 0, name |-> <<"C">>],
                      [position |-> 5, name |-> <<"D", "m">>]>>],
        [text |-> <<"D", "a", "n", "c", "i", "n", "g">>,
         chords |-> <<[position |-> 0, name |-> <<"E", "m">>],
                      [position |-> 5, name |-> <<"F">>]>>]>> }

StoredInit ==
    /\ lines \in {<<l>> : l \in StoredLines} \cup StoredExamples
    /\ lyrics = << >>
    /\ results = << >>
    /\ pc = "stored"
    /\ threads = << >>
    /\ song = UnsavedSong
    /\ db = << >>
    /\ gui = NoEditor

\* GET /songs/{id}?display=for_edit: SongReadForEdit.lyrics
ReadStoredForEdit ==
    /\ pc = "stored"
    /\ results' = <<[op |-> "raw", lines_before |-> lines,
                     value |-> convert_song_lines_into_raw_lyrics(lines)]>>
    /\ lines' = RawRenderedLines(lines)
    /\ pc' = "read_for_edit"
    /\ UNCHANGED <<db, gui, song, lyrics, threads>>

\* PUT /songs/{id} with the lyrics that were read: db_edit_song
ResubmitLyrics ==
    /\ pc = "read_for_edit"
    /\ lyrics' = results[1].value
    /\ lines' = EditedLines(lines, [fields |-> {"lyrics"},
                                    lyrics |-> results[1].value])
    /\ pc' = "resubmitted"
    /\ UNCHANGED <<db, gui, song, results, threads>>

\* GET /songs/{id}?display=for_display: SongReadForDisplay.lyrics
ReadStoredForDisplay ==
    /\ pc = "stored"
    /\ results' = <<[op |-> "formatted", lines_before |-> lines,
                     value |-> convert_song_lines_into_formatted_lyrics(lines)]>>
    /\ pc' = "displayed"
    /\ UNCHANGED <<db, gui, song, lyrics, lines, threads>>

\* POST /songs/to_pdf for the song that was displayed
ExportStored ==
    /\ pc = "displayed"
    /\ results' = Append(results,
            [op |-> "pdf", lines_before |-> lines,
             cells |-> convert_songs_to_pdf(lines)])
    /\ pc' = "exported"
    /\ UNCHANGED <<db, gui, song, lyrics, lines, threads>>

StoredNext ==
    ReadStoredForEdit \/ ResubmitLyrics \/ ReadStoredForDisplay \/ ExportStored

SpecStored == StoredInit /\ [][StoredNext]_vars

---------------------------------------------------------------------------
(* Properties of the tokenizer and the codecs, checked under Spec          *)

\* The matches the tokenizer finds in one line of the block
MatchesOf(raw) == FindBracketMatches(Strip(raw), 1)

\* Two consecutive matches of a line with no character between them
HasAdjacentChords(raw) ==
    \E k \in 1..(Len(MatchesOf(raw)) - 1) :
        MatchesOf(raw)[k + 1].start = MatchesOf(raw)[k].end

NoAdjacentChords(block) ==
    \A k \in DOMAIN SplitLines(block) : ~HasAdjacentChords(SplitLines(block)[k])

\* The block with each of its lines whitespace-trimmed and newline-terminated
TrimmedLines(block) ==
    Flatten([k \in DOMAIN SplitLines(block) |->
                Strip(SplitLines(block)[k]) \o <<NL>>])

\* The Song has been structured and no codec has touched its lines yet
FreshlyStructured == pc = "structured" /\ results = << >>

\* The first call made on the structured Song was the raw codec
FirstCallRaw == pc = "structured" /\ Len(results) >= 1 /\ results[1].op = "raw"

\* C1: raw round-trip. For every block in which no two bracket chords of a
\* line are adjacent, the raw rendering of the structured lines is the block
\* itself, line by line, each line of the block whitespace-trimmed.
C1_RawRoundTrip ==
    (FirstCallRaw /\ NoAdjacentChords(lyrics))
        => results[1].value = TrimmedLines(lyrics)

\* a line with two separated chords and text after them has been rendered
C1_Witness ==
    /\ FirstCallRaw
    /\ NoAdjacentChords(lyrics)
    /\ \E k \in DOMAIN SplitLines(lyrics) :
          /\ Len(MatchesOf(SplitLines(lyrics)[k])) >= 2
          /\ MatchesOf(SplitLines(lyrics)[k])[2].end
                < Len(Strip(SplitLines(lyrics)[k]))
    /\ results[1].value = TrimmedLines(lyrics)

\* What a call of codec op returns on the given lines
RenderOf(op, ls) ==
    IF op = "raw" THEN convert_song_lines_into_raw_lyrics(ls)
    ELSE convert_song_lines_into_formatted_lyrics(ls)

\* C3: rendering is pure. Every render call made on a Song returns what a
\* first call on the untouched structured lines returns, and the lines keep
\* their text and chords.
C3_RenderingIsPure ==
    pc = "structured" =>
        /\ lines = convert_lyrics_into_song_lines(lyrics)
        /\ \A k \in DOMAIN results :
              results[k].value
                = RenderOf(results[k].op, convert_lyrics_into_song_lines(lyrics))

\* C5: position bound. Every chord annotation of a structured line has a
\* position <= the length of the line's stripped text.
C5_PositionBound ==
    FreshlyStructured =>
        \A k \in DOMAIN lines : \A c \in DOMAIN lines[k].chords :
            lines[k].chords[c].position <= Len(lines[k].text)

\* C6: position monotonicity. The positions of a structured line's chord
\* annotations, in stored order, are non-decreasing.
C6_PositionMonotone ==
    FreshlyStructured =>
        \A k \in DOMAIN lines : \A c \in 1..(Len(lines[k].chords) - 1) :
            lines[k].chords[c].position <= lines[k].chords[c + 1].position

\* a structured line holds two chords that were adjacent in the input
C6_Witness ==
    /\ FreshlyStructured
    /\ \E k \in DOMAIN lines :
          /\ Len(lines[k].chords) >= 2
          /\ HasAdjacentChords(SplitLines(lyrics)[k])

\* C7: no chord is lost or merged. Each structured line stores exactly one
\* annotation per bracketed-chord match of its input line, the names in
\* left-to-right match order.
C7_OneAnnotationPerMatch ==
    FreshlyStructured =>
        /\ Len(lines) = Len(SplitLines(lyrics))
        /\ \A k \in DOMAIN lines :
              [c \in DOMAIN lines[k].chords |-> lines[k].chords[c].name]
                = [m \in DOMAIN MatchesOf(SplitLines(lyrics)[k]) |->
                        MatchesOf(SplitLines(lyrics)[k])[m].chord]

\* (A)(Dm) glued together gave two annotations, A then Dm
C7_Witness ==
    /\ FreshlyStructured
    /\ \E k \in DOMAIN lines :
          /\ HasAdjacentChords(SplitLines(lyrics)[k])
          /\ Len(lines[k].chords) = 2
          /\ lines[k].chords[1].name = <<"A">>
          /\ lines[k].chords[2].name = <<"D", "m">>

\* A chord token of the grammar ROOT [accidental] [quality] [digits] [/bass]
IsChordToken(t) == BracketedAccepts(t)

\* Number of lines of a block: one per line break, plus the unterminated
\* last line if there is one
InputLineCount(block) ==
    Cardinality({i \in DOMAIN block : block[i] = NL})
        + (IF block # << >> /\ block[Len(block)] # NL THEN 1 ELSE 0)

\* How many times character c occurs in s
Occurrences(s, c) == Cardinality({i \in DOMAIN s : s[i] = c})

EmptyLine == [text |-> << >>, chords |-> << >>]

\* C12: blank-line preservation. Structuring appends exactly one line per
\* line of the input block, in input order; a blank (empty or
\* whitespace-only) input line becomes a line with empty text and no
\* annotations and is never dropped.
C12_BlankLinesKept ==
    FreshlyStructured =>
        /\ Len(lines) = InputLineCount(lyrics)
        /\ \A k \in DOMAIN lines :
              /\ Strip(SplitLines(lyrics)[k]) = << >> => lines[k] = EmptyLine
              /\ Occurrences(lines[k].text, "x")
                    = Occurrences(SplitLines(lyrics)[k], "x")

\* "x", a blank line, "x": three lines, the middle one empty
C12_Witness ==
    /\ FreshlyStructured
    /\ lyrics = <<"x", NL, NL, "x">>
    /\ Len(lines) = 3
    /\ lines[2] = EmptyLine
    /\ lines[1].text = <<"x">> /\ lines[3].text = <<"x">>

\* Index of the ")" closing a grammar-valid "(chord)" that opens at index i
\* of s, 0 when there is none
ValidGroupEnd(s, i) ==
    IF Char(s, i) # "(" THEN 0
    ELSE LET closes == {e \in (i + 1)..Len(s) : s[e] = ")"}
         IN  IF closes = {} THEN 0
             ELSE IF IsChordToken(SubSeq(s, i + 1, SetMin(closes) - 1))
                  THEN SetMin(closes) ELSE 0

RECURSIVE WithoutChordGroups(_, _)
\* s from index i on, with the grammar-valid "(chord)" substrings left out
WithoutChordGroups(s, i) ==
    IF i > Len(s) THEN << >>
    ELSE IF ValidGroupEnd(s, i) # 0
         THEN WithoutChordGroups(s, ValidGroupEnd(s, i) + 1)
    ELSE <<s[i]>> \o WithoutChordGroups(s, i + 1)

RECURSIVE ChordGroupNames(_, _)
\* The chords of the grammar-valid "(chord)" substrings of s, left to right
ChordGroupNames(s, i) ==
    IF i > Len(s) THEN << >>
    ELSE IF ValidGroupEnd(s, i) # 0
         THEN <<SubSeq(s, i + 1, ValidGroupEnd(s, i) - 1)>>
              \o ChordGroupNames(s, ValidGroupEnd(s, i) + 1)
    ELSE ChordGroupNames(s, i + 1)

NamesOf(chords) == [k \in DOMAIN chords |-> chords[k].name]

\* C13: stripped text. The text stored for every input line is the
\* whitespace-trimmed input with exactly the grammar-valid "(chord)"
\* substrings removed; parenthesised content outside the grammar stays in
\* the text and gives no annotation; a line with no valid chord keeps its
\* trimmed input and has no annotation.
C13_StrippedText ==
    FreshlyStructured =>
        \A k \in DOMAIN lines :
            LET t == Strip(SplitLines(lyrics)[k])
            IN  /\ lines[k].text = WithoutChordGroups(t, 1)
                /\ NamesOf(lines[k].chords) = ChordGroupNames(t, 1)
                /\ ChordGroupNames(t, 1) = << >> =>
                      lines[k].text = t /\ lines[k].chords = << >>

\* "(Hm)x(C##)y(hello)(Am)": only (Am) is a chord
C13_Witness ==
    /\ FreshlyStructured
    /\ Len(lines) = 1
    /\ lines[1].text = <<"(", "H", "m", ")", "x", "(", "C", "#", "#", ")", "y",
                          "(", "h", "e", "l", "l", "o", ")">>
    /\ NamesOf(lines[1].chords) = << <<"A", "m">> >>

\* A line with "(name)" put at every annotation's position: the text up to
\* the first position, then each "(name)" followed by the text up to the
\* next position (to the end after the last one)
RawLineExpected(line) ==
    LET n == Len(line.chords)
        pos(k) == IF k = 0 THEN 0 ELSE line.chords[k].position
    IN  Flatten([k \in 1..n |->
                    Slice(line.text, pos(k - 1), pos(k))
                    \o <<"(">> \o line.chords[k].name \o <<")">>])
        \o SliceFrom(line.text, pos(n))

RawExpected(ls) == Flatten([k \in DOMAIN ls |-> RawLineExpected(ls[k]) \o <<NL>>])

\* C14: raw rendering. The raw codec walks the annotations of each line in
\* ascending position and inserts "(name)" at index position + offset of the
\* line text, offset growing by len(name) + 2 per insertion; the rendered
\* lines are concatenated, each followed by a line break, the last included.
C14_RawRendering ==
    FirstCallRaw =>
        results[1].value = RawExpected(convert_lyrics_into_song_lines(lyrics))

\* Two lines with chords at 0 and 5, as test_db_read_song[for_edit] has them:
\* "(c0)" + text[:5] + "(c1)" + text[5:] + newline for each line
C14_Witness ==
    /\ FirstCallRaw
    /\ Len(lines) = 2
    /\ \A k \in 1..2 :
          /\ Len(lines[k].chords) = 2
          /\ lines[k].chords[1].position = 0
          /\ lines[k].chords[2].position = 5
    /\ results[1].value =
          <<"(", "C", ")", "S", "u", "n", "s", "h", "(", "D", "m", ")", "i",
            "n", "e", NL, "(", "E", "m", ")", "D", "a", "n", "c", "i", "(",
            "F", ")", "n", "g", NL>>

\* The Song has been rendered, and only by the display codec, which leaves
\* the lines as they were structured
OnlyFormattedCalls ==
    /\ pc = "structured"
    /\ results # << >>
    /\ \A c \in DOMAIN results : results[c].op = "formatted"

\* The rows of a rendered block, each without its line break
RowsOf(value) == SplitLines(value)

\* One annotation put on a chord row: spaces from the row's length up to the
\* position, one space if that is none and the row is not empty, the name
PaddedRowStep(row, chord) ==
    LET pad == Spaces(chord.position - Len(row))
    IN  row \o (IF pad = << >> /\ row # << >> THEN <<SP>> ELSE pad)
            \o chord.name

RECURSIVE PaddedChordRow(_, _)
PaddedChordRow(row, chords) ==
    IF chords = << >> THEN row
    ELSE PaddedChordRow(PaddedRowStep(row, Head(chords)), Tail(chords))

\* C15: display chord row. The display codec builds each line's chord row by
\* padding with spaces from the row's length up to the annotation's position
\* (one space when the row is non-empty and the pad would be empty) and
\* appending the chord name, with nothing after the name; annotations
\* [(0,"C1"),(5,"C2")] give the row "C1   C2".
C15_ChordRow ==
    OnlyFormattedCalls =>
        \A c \in DOMAIN results : \A k \in DOMAIN lines :
            RowsOf(results[c].value)[2 * k - 1]
                = PaddedChordRow(<< >>, lines[k].chords)

\* C15 as the code has it: the chord row is the padded row followed by one
\* space whenever the line has a chord, so [(0,"C1"),(5,"C2")] give "C1   C2 "
C15_ChordRowTrailingSpace ==
    OnlyFormattedCalls =>
        \A c \in DOMAIN results : \A k \in DOMAIN lines :
            RowsOf(results[c].value)[2 * k - 1]
                = PaddedChordRow(<< >>, lines[k].chords)
                  \o (IF lines[k].chords = << >> THEN << >> ELSE <<SP>>)

C15_Witness ==
    /\ OnlyFormattedCalls
    /\ Len(lines) = 1
    /\ lines[1].chords = <<[position |-> 0, name |-> <<"C", "1">>],
                           [position |-> 5, name |-> <<"C", "2">>]>>
    /\ RowsOf(results[1].value)[1] = <<"C", "1", SP, SP, SP, "C", "2", SP>>

\* A line with exactly two chords, at 0 and at p > len(first chord name)
TestShaped(line) ==
    /\ Len(line.chords) = 2
    /\ line.chords[1].position = 0
    /\ line.chords[2].position > Len(line.chords[1].name)

\* The block test_db_read_song[for_display] expects for such a line
DisplayBlock(line) ==
    line.chords[1].name
    \o Spaces(line.chords[2].position - Len(line.chords[1].name))
    \o line.chords[2].name \o <<SP>> \o <<NL>> \o line.text \o <<NL>>

\* C16: display form as the test states it. For lines with two chords at 0
\* and p, p > len(first name), the for_display lyrics of a line are the
\* first name, p - len(first name) spaces, the second name, one space, a
\* newline, the text and a newline; the song's lyrics are these blocks in
\* line order.
C16_DisplayForm ==
    (OnlyFormattedCalls /\ \A k \in DOMAIN lines : TestShaped(lines[k])) =>
        \A c \in DOMAIN results :
            results[c].value = Flatten([k \in DOMAIN lines |-> DisplayBlock(lines[k])])

\* The two lines with chords at 0 and 5
C16_Witness ==
    /\ OnlyFormattedCalls
    /\ Len(lines) = 2
    /\ \A k \in DOMAIN lines : TestShaped(lines[k]) /\ lines[k].chords[2].position = 5
    /\ results[1].value =
          <<"C", SP, SP, SP, SP, "D", "m", SP, NL,
            "S", "u", "n", "s", "h", "i", "n", "e", NL,
            "E", "m", SP, SP, SP, "F", SP, NL,
            "D", "a", "n", "c", "i", "n", "g", NL>>

\* C17: two rows per line. For n lines the display codec emits exactly 2n
\* rows, chord row then lyric row, each ended by a line break; a chord-only
\* line still gets its empty lyric row and a lyric-only line its empty chord
\* row.
C17_TwoRowsPerLine ==
    OnlyFormattedCalls =>
        \A c \in DOMAIN results :
            /\ Occurrences(results[c].value, NL) = 2 * Len(lines)
            /\ Len(RowsOf(results[c].value)) = 2 * Len(lines)
            /\ \A k \in DOMAIN lines :
                  /\ RowsOf(results[c].value)[2 * k] = lines[k].text
                  /\ lines[k].chords = << >> =>
                        RowsOf(results[c].value)[2 * k - 1] = << >>
                  /\ lines[k].chords # << >> =>
                        RowsOf(results[c].value)[2 * k - 1] # << >>

\* A chord-only line above a lyric-only line: four rows
C17_Witness ==
    /\ OnlyFormattedCalls
    /\ lyrics = <<"(", "A", ")", NL, "x">>
    /\ RowsOf(results[1].value) = << <<"A", SP>>, << >>, << >>, <<"x">> >>

RECURSIVE MatchedLength(_, _)
\* Total length of the first n matches of a line
MatchedLength(ms, n) ==
    IF n = 0 THEN 0
    ELSE MatchedLength(ms, n - 1) + (ms[n].end - ms[n].start)

\* C24: shift bookkeeping. For every bracketed-chord match of a line, the
\* recorded position is the match's start offset in the trimmed line minus
\* the total length of the bracketed-chord substrings matched earlier in
\* that line.
C24_ShiftBookkeeping ==
    FreshlyStructured =>
        \A k \in DOMAIN lines :
            LET ms == MatchesOf(SplitLines(lyrics)[k])
            IN  /\ Len(lines[k].chords) = Len(ms)
                /\ \A j \in DOMAIN ms :
                      lines[k].chords[j].position
                          = ms[j].start - MatchedLength(ms, j - 1)

---------------------------------------------------------------------------
(* Properties of concurrent rendering, checked under SpecConc              *)

\* C4: concurrent use is safe without locking. In every interleaving of two
\* render calls on the same Song's lines, each call returns the string it
\* returns when run alone on the original lines.
C4_ConcurrentRenderSafe ==
    \A k \in DOMAIN results :
        results[k].value
            = RenderOf(results[k].op, convert_lyrics_into_song_lines(lyrics))

---------------------------------------------------------------------------
(* Properties of the chord grammar, checked under SpecGrammar              *)

\* C8: grammar agreement. The bracketed-form matcher and the bare-form
\* matcher accept exactly the same chord tokens.
C8_GrammarAgreement ==
    \A j, k \in DOMAIN results : results[j].value = results[k].value

\* ROOT [accidental] [quality] [digits] [/bass], written out
InGrammar(t) ==
    \E r \in Roots,
       a \in {<< >>} \cup {<<x>> : x \in Accidentals},
       q \in {<< >>} \cup Range(Qualities),
       b \in {<< >>} \cup {<<"/", r2>> \o a2 :
                               r2 \in Roots,
                               a2 \in {<< >>} \cup {<<x>> : x \in Accidentals}} :
        LET pre == <<r>> \o a \o q
        IN  /\ Len(pre) + Len(b) <= Len(t)
            /\ SubSeq(t, 1, Len(pre)) = pre
            /\ SubSeq(t, Len(t) - Len(b) + 1, Len(t)) = b
            /\ \A k \in (Len(pre) + 1)..(Len(t) - Len(b)) : t[k] \in Digits

\* C22: grammar conformance. The chord-token predicate, in its bracketed
\* form and in its bare form, accepts "Am", "C#maj7", "Bm/A" and "Gsus4",
\* rejects "Hm", "123" and "C##", and accepts exactly the tokens
\* ROOT [accidental] [quality] [digits] [/bass].
C22_GrammarConformance ==
    \A k \in DOMAIN results : results[k].value = InGrammar(lyrics)

---------------------------------------------------------------------------
(* Properties of the normalizer, checked under SpecNorm                    *)

\* C2: normalization is idempotent. Normalizing the output of
\* normalize_lyrics again returns it unchanged.
C2_NormalizeIdempotent ==
    \A k \in 2..Len(results) : results[k].value = results[k - 1].value

\* A line of bare chords glued to a lyric word: leading tokens that are
\* bare chords, then a token that is not itself a chord but splits into a
\* chord followed by word characters.
GluedLine(line) ==
    \E n \in DOMAIN Split(line) :
        /\ \A k \in 1..(n - 1) : CHORD_REGEX_fullmatch(Split(line)[k])
        /\ ~CHORD_REGEX_fullmatch(Split(line)[n])
        /\ \E e \in 2..Len(Split(line)[n]) :
              /\ CHORD_REGEX_fullmatch(SubSeq(Split(line)[n], 1, e - 1))
              /\ Split(line)[n][e] \in WordChars

\* No line of the block is a chord line followed by another line
NoChordLineAbove(block) ==
    \A k \in 1..(Len(SplitLines(block)) - 1) :
        ~is_chord_line(SplitLines(block)[k])

\* C9: pass-through. In a block with no chord line above another line,
\* every line that is not a line of bare chords glued to a lyric word
\* (already-bracketed lines, plain lyric lines, a chord-only last line)
\* appears in the output exactly as in the input.
C9_PassThrough ==
    (pc = "normalized" /\ NoChordLineAbove(lyrics)) =>
        /\ Len(results[1].rows) = Len(SplitLines(lyrics))
        /\ \A k \in DOMAIN SplitLines(lyrics) :
              ~GluedLine(SplitLines(lyrics)[k])
                  => results[1].rows[k] = SplitLines(lyrics)[k]

\* The decomposition of a one-line block of n space-separated bare chord
\* tokens whose last one is glued to a lyric word: the chords, and the
\* glued word with the rest of the line
GluedSplit(line) ==
    LET tokens == Split(line)
        n == CHOOSE n \in DOMAIN tokens :
                /\ \A k \in 1..(n - 1) : CHORD_REGEX_fullmatch(tokens[k])
                /\ ~CHORD_REGEX_fullmatch(tokens[n])
        e == GluedMatchEnd(tokens[n])
    IN  [chords |-> SubSeq(tokens, 1, n - 1) \o <<SubSeq(tokens[n], 1, e - 1)>>,
         rest   |-> Join(<<SP>>, <<SubSeq(tokens[n], e, Len(tokens[n]))>>
                                  \o SubSeq(tokens, n + 1, Len(tokens)))]

\* C10: glued-chord split. For a line of n space-separated bare chord
\* tokens whose last one is glued to a lyric word, the output is the n
\* chords each in parentheses, concatenated, immediately followed by the
\* glued word and the rest of the line: "D A A7 DHey Jude" gives
\* "(D)(A)(A7)(D)Hey Jude".
C10_GluedChordSplit ==
    (pc = "normalized" /\ Len(SplitLines(lyrics)) = 1 /\ GluedLine(lyrics)
        /\ lyrics = Join(<<SP>>, Split(lyrics))) =>
        results[1].value
            = Flatten([k \in DOMAIN GluedSplit(lyrics).chords |->
                        <<"(">> \o GluedSplit(lyrics).chords[k] \o <<")">>])
              \o GluedSplit(lyrics).rest

RECURSIVE TokenColsFrom(_, _)
\* The whitespace-delimited tokens of s from index i on, each with the
\* (0-based) column it starts at
TokenColsFrom(s, i) ==
    IF i > Len(s) THEN << >>
    ELSE IF s[i] \in WhitespaceChars THEN TokenColsFrom(s, i + 1)
    ELSE LET e == CHOOSE e \in i..Len(s) :
                    /\ \A k \in i..e : s[k] \notin WhitespaceChars
                    /\ (e = Len(s) \/ s[e + 1] \in WhitespaceChars)
         IN  <<[start |-> i - 1, token |-> SubSeq(s, i, e)]>>
             \o TokenColsFrom(s, e + 1)

TokenCols(s) == TokenColsFrom(s, 1)

\* The chord tokens of a chord line that start at column c
ChordTokensAt(toks, c) ==
    {toks[k].token : k \in {j \in DOMAIN toks :
                                toks[j].start = c /\ IsChordToken(toks[j].token)}}

\* More than 60% of the tokens of the line are chord tokens of the grammar
GrammarChordLine(line) ==
    /\ Split(line) # << >>
    /\ 10 * Cardinality({k \in DOMAIN Split(line) : IsChordToken(Split(line)[k])})
         > 6 * Len(Split(line))

RECURSIVE MergeConforms(_, _, _, _)
\* m, the rest of a merged line, continues lyric_line from (0-based) index
\* i on: each lyric character in order, "(chord)" immediately before the
\* character at every column a chord token starts at
MergeConforms(m, lyric_line, i, toks) ==
    IF i >= Len(lyric_line) THEN TRUE
    ELSE IF ChordTokensAt(toks, i) # {}
    THEN LET t == CHOOSE t \in ChordTokensAt(toks, i) : TRUE
             g == <<"(">> \o t \o <<")">> \o <<lyric_line[i + 1]>>
         IN  /\ StartsWith(m, 1, g)
             /\ MergeConforms(SubSeq(m, Len(g) + 1, Len(m)), lyric_line, i + 1, toks)
    ELSE \/ /\ m # << >>
            /\ m[1] = lyric_line[i + 1]
            /\ MergeConforms(Tail(m), lyric_line, i + 1, toks)
         \/ /\ m # << >>
            /\ m[1] = "("
            /\ \E j \in 2..(Len(m) - 1) :
                  /\ m[j] = ")"
                  /\ \A k \in 2..(j - 1) : m[k] # ")"
                  /\ m[j + 1] = lyric_line[i + 1]
                  /\ MergeConforms(SubSeq(m, j + 2, Len(m)), lyric_line, i + 1, toks)

\* C11: chord-line merge. A chord line followed by a lyric line gives one
\* merged line: every lyric character in order, with "(chord)" immediately
\* before the character at column c for every chord token that starts at
\* column c of the chord line (c < len(lyric line)); the chord line itself
\* is not emitted.
C11_ChordLineMerge ==
    (pc = "normalized" /\ Len(SplitLines(lyrics)) = 2
        /\ GrammarChordLine(SplitLines(lyrics)[1])) =>
        /\ Len(results[1].rows) = 1
        /\ MergeConforms(results[1].rows[1], SplitLines(lyrics)[2], 0,
                         TokenCols(SplitLines(lyrics)[1]))

---------------------------------------------------------------------------
(* Properties of the PDF export, verified under SpecPdf                    *)

\* The cells emitted for line i of the rendered song
CellsOfLine(i) == SelectSeq(results[1].cells, LAMBDA c : c.line = i)

\* C18: PDF spacing rule. For every line i with a non-empty chord row and
\* empty text, if line i+1 exists and has text, the empty lyric row of line
\* i is still emitted as its own cell after the chord row; a line with
\* neither text nor chords emits one double-height blank cell instead of
\* two rows.
C18_PdfSpacing ==
    pc = "exported" =>
        LET ls == results[1].song
        IN  \A i \in DOMAIN ls :
              /\ (ls[i].chords # << >> /\ ls[i].text = << >>
                    /\ i < Len(ls) /\ ls[i + 1].text # << >>) =>
                    /\ Len(CellsOfLine(i)) = 2
                    /\ CellsOfLine(i)[1].text # << >>
                    /\ CellsOfLine(i)[1].h = cell_height
                    /\ CellsOfLine(i)[2] =
                          [line |-> i, h |-> cell_height, text |-> << >>]
              /\ (ls[i].chords = << >> /\ ls[i].text = << >>) =>
                    CellsOfLine(i) =
                        <<[line |-> i, h |-> 2 * cell_height, text |-> << >>]>>

\* A blank line, a chord-only line and a sung line, exported by the route
C18_Witness ==
    /\ pc = "exported"
    /\ results[1].op = "pdf"
    /\ lyrics = <<NL, "(", "A", ")", NL, "x">>
    /\ results[1].cells =
          <<[line |-> 1, h |-> 2 * cell_height, text |-> << >>],
            [line |-> 2, h |-> cell_height, text |-> <<"A">>],
            [line |-> 2, h |-> cell_height, text |-> << >>],
            [line |-> 3, h |-> cell_height, text |-> << >>],
            [line |-> 3, h |-> cell_height, text |-> <<"x">>]>>

---------------------------------------------------------------------------
(* Properties of db_edit_song, verified under SpecEdit                     *)

\* The call was a db_edit_song that found the song
Edited == pc = "edited" /\ results[1].error = "none"

\* title and artist are the supplied values, or what they were
TitleArtistAsSupplied ==
    LET u == results[1].update_data
        b == results[1].song_before
    IN  /\ song.title = (IF "title" \in u.fields THEN u.title ELSE b.title)
        /\ song.artist_id
             = (IF "artist_id" \in u.fields THEN u.artist_id ELSE b.artist_id)

\* C19: wholesale replacement on edit. After db_edit_song with an update
\* that supplies lyrics L, the song's lines are exactly the lines parsed
\* from L (texts and annotations in order) and none of the lines or chords
\* it had before remain; the song keeps its id, and title and artist change
\* only to the supplied values.
C19_WholesaleReplacement ==
    (Edited /\ "lyrics" \in results[1].update_data.fields) =>
        /\ Len(lines) = InputLineCount(results[1].update_data.lyrics)
        /\ \A k \in DOMAIN lines :
              LET t == Strip(SplitLines(results[1].update_data.lyrics)[k])
              IN  /\ lines[k].text = WithoutChordGroups(t, 1)
                  /\ NamesOf(lines[k].chords) = ChordGroupNames(t, 1)
        /\ lines = convert_lyrics_into_song_lines(results[1].update_data.lyrics)
        /\ song.id = results[1].song_before.id
        /\ TitleArtistAsSupplied

\* test_db_edit_song_with_lyrics: a song that had lines gets the two lines
\* "Song Line 1" and "Song Line 2", each with Am at 0 and Dm at 5
C19_Witness ==
    /\ Edited
    /\ results[1].update_data.fields = {"lyrics"}
    /\ results[1].lines_before # << >>
    /\ results[1].lines_before # lines
    /\ Len(lines) = 2
    /\ lines[1].text = <<"S", "o", "n", "g", " ", "L", "i", "n", "e", " ", "1">>
    /\ lines[2].text = <<"S", "o", "n", "g", " ", "L", "i", "n", "e", " ", "2">>
    /\ \A k \in 1..2 :
          lines[k].chords = <<[position |-> 0, name |-> <<"A", "m">>],
                              [position |-> 5, name |-> <<"D", "m">>]>>
    /\ song = results[1].song_before

\* C20: edit without lyrics. After db_edit_song with an update that sets
\* only title and/or artist_id, the song's lines (texts, order) and their
\* chords are exactly what they were before, while title and artist take
\* the supplied values.
C20_EditKeepsLines ==
    (Edited /\ "lyrics" \notin results[1].update_data.fields) =>
        /\ lines = results[1].lines_before
        /\ song.id = results[1].song_before.id
        /\ TitleArtistAsSupplied

\* test_db_edit_song_with_no_lyrics: title and artist change, the lines stay
C20_Witness ==
    /\ Edited
    /\ results[1].update_data.fields = {"title", "artist_id"}
    /\ song.title # results[1].song_before.title
    /\ song.artist_id # results[1].song_before.artist_id
    /\ song.title = results[1].update_data.title
    /\ song.artist_id = results[1].update_data.artist_id
    /\ Len(lines) = 2
    /\ \A k \in 1..2 : Len(lines[k].chords) = 2
    /\ lines = results[1].lines_before

---------------------------------------------------------------------------
(* Properties of db_delete_songs, verified under SpecDelete                *)

\* C21: bulk delete. db_delete_songs(ids) removes exactly the stored songs
\* whose id is in ids and returns them, leaving every other song stored;
\* ids that do not exist are ignored when at least one exists; when no
\* requested id exists (an empty list included) it raises
\* NotFoundError("Songs with such IDs were not found") and the stored songs
\* are unchanged.
C21_BulkDelete ==
    pc = "deleted" =>
        LET before == results[1].db_before
            hit    == Range(results[1].song_ids) \cap IdsOf(before)
        IN  IF hit # {}
            THEN /\ results[1].error = "none"
                 /\ IdsOf(results[1].value) = hit
                 /\ Range(results[1].value) \subseteq Range(before)
                 /\ Len(results[1].value) = Cardinality(hit)
                 /\ IdsOf(db) = IdsOf(before) \ hit
                 /\ Range(db) \subseteq Range(before)
                 /\ Len(db) = Len(before) - Cardinality(hit)
            ELSE /\ results[1].error = "Songs with such IDs were not found"
                 /\ db = before

\* One of two requested ids exists: that song goes, the others stay
C21_Witness ==
    /\ pc = "deleted"
    /\ results[1].song_ids = <<1, MaxSongs + 1>>
    /\ IdsOf(results[1].db_before) = {1, 2, 3}
    /\ IdsOf(results[1].value) = {1}
    /\ IdsOf(db) = {2, 3}

---------------------------------------------------------------------------
(* Properties of db_find_songs, verified under SpecFind                    *)

\* The records a listing ranges over, in the order they are listed: the
\* stored songs of the requested artists, ranked by the search when a term
\* is given
Listed ==
    LET r == results[1]
    IN  IF r.search THEN RowsInOrder(ArtistFilter(db, r.artists), r.ranking)
        ELSE ArtistFilter(db, r.artists)

\* C23: pagination bound. db_find_songs / db_read_songs return at most
\* limit songs and skip the first skip records, for every skip >= 0 and
\* limit >= 0, with an empty search and with a search term.
C23_PaginationBound ==
    pc = "found" =>
        /\ Len(results[1].value) <= results[1].limit
        /\ \A k \in 1..Min2(results[1].skip, Len(Listed)) :
              Listed[k] \notin Range(results[1].value)

---------------------------------------------------------------------------
(* Order of the two convention tests of normalize_lyrics, verified under   *)
(* SpecNorm                                                                *)

\* The chord-line test as the loop applies it to line i: only with a line
\* after it
ChordLineAt(ls, i) == i + 1 <= Len(ls) /\ is_chord_line(ls[i])

\* The output row of line i under the branch taken there
BranchRow(ls, i, branch) ==
    IF branch = "merge" THEN merge_chord_and_lyric_lines(ls[i], ls[i + 1])
    ELSE IF branch = "inline" THEN embed_inline_chords(ls[i])
    ELSE ls[i]

\* The rows the branches produce, one per line that was not consumed
BranchRows(ls, branches) ==
    LET tagged == [i \in 1..Len(ls) |->
                      [branch |-> branches[i],
                       row |-> BranchRow(ls, i, branches[i])]]
        kept == SelectSeq(tagged, LAMBDA t : t.branch # "skipped")
    IN  [k \in 1..Len(kept) |-> kept[k].row]

\* C25: convention precedence. normalize_lyrics tests each unconsumed line
\* first for the separate-chord-line convention (only when a next line
\* exists) and applies the inline-glued test only when that first test
\* fails; a line satisfying both tests is merged with its next line and
\* never rewritten by embed_inline_chords, and the line consumed as the
\* lyric line of a merge is never itself tested.
C25_ConventionPrecedence ==
    pc = "normalized" =>
        LET ls == SplitLines(lyrics)
            branches == results[1].branches
        IN  /\ Len(branches) = Len(ls)
            /\ \A i \in 1..Len(ls) :
                  /\ branches[i] = "skipped"
                        <=> (i > 1 /\ branches[i - 1] = "merge")
                  /\ branches[i] # "skipped" =>
                        /\ branches[i] = "merge" <=> ChordLineAt(ls, i)
                        /\ branches[i] = "inline"
                              <=> /\ ~ChordLineAt(ls, i)
                                  /\ is_inline_chord_lyrics(ls[i])
                        /\ branches[i] = "plain"
                              <=> /\ ~ChordLineAt(ls, i)
                                  /\ ~is_inline_chord_lyrics(ls[i])
            /\ results[1].rows = BranchRows(ls, branches)

\* A line that passes both tests is merged with the line after it, and a
\* consumed line that would pass a test of its own is left untested
C25_Witness ==
    /\ pc = "normalized"
    /\ LET ls == SplitLines(lyrics)
       IN  /\ Len(ls) = 2
           /\ is_chord_line(ls[1])
           /\ is_inline_chord_lyrics(ls[1])
           /\ is_inline_chord_lyrics(ls[2])
           /\ results[1].branches = <<"merge", "skipped">>
           /\ results[1].rows
                 = <<merge_chord_and_lyric_lines(ls[1], ls[2])>>
           /\ results[1].rows[1] # embed_inline_chords(ls[1])

---------------------------------------------------------------------------
(* Properties of embed_inline_chords and merge_chord_and_lyric_lines,      *)
(* verified under SpecNorm                                                 *)

\* The characters of a line that are neither whitespace nor parentheses
Squeeze(s) == SelectSeq(s, LAMBDA c : c \notin {SP, "\t", "(", ")"})

\* C26: embed_inline_chords neither duplicates nor drops input. For every
\* line it is applied to, the output is the leading chords in parentheses
\* followed by the remaining words, every whitespace-delimited token of the
\* input contributing exactly once; so the output and the input carry the
\* same characters in the same order once spaces and the parentheses are
\* set aside.
C26_EmbedKeepsTokens ==
    pc = "normalized" =>
        LET ls == SplitLines(lyrics)
        IN  \A i \in 1..Len(ls) :
               results[1].branches[i] = "inline" =>
                   Squeeze(embed_inline_chords(ls[i])) = Squeeze(ls[i])

\* The whitespace-delimited tokens of a chord line that the merge's own
\* matcher takes for chords, left to right
ChordTokensOf(line) ==
    SelectSeq(Split(Strip(line)), LAMBDA t : CHORD_REGEX_fullmatch(t))

RECURSIVE IsSubsequence(_, _)
\* The elements of a occur in b in the same order
IsSubsequence(a, b) ==
    IF a = << >> THEN TRUE
    ELSE IF b = << >> THEN FALSE
    ELSE IF Head(a) = Head(b) THEN IsSubsequence(Tail(a), Tail(b))
    ELSE IsSubsequence(a, Tail(b))

\* C27: chord-line merge loses no chord. For every chord line followed by
\* a line (a shorter lyric line or a blank line included), every chord
\* token of the chord line appears as a "(chord)" group in the merged
\* output line, in the same left-to-right order.
C27_MergeKeepsChords ==
    pc = "normalized" =>
        LET ls == SplitLines(lyrics)
        IN  \A i \in 1..Len(ls) :
               results[1].branches[i] = "merge" =>
                   IsSubsequence(
                       ChordTokensOf(ls[i]),
                       ChordGroupNames(
                           merge_chord_and_lyric_lines(ls[i], ls[i + 1]), 1))

---------------------------------------------------------------------------
(* Properties of stored lines, verified under SpecStored                   *)

\* The positions of a line's chords grow strictly (by at least step)
PositionsGrowBy(chords, step) ==
    \A k \in 1..(Len(chords) - 1) :
        chords[k + 1].position >= chords[k].position + step

\* A Structured Line the raw codec can carry: text without whitespace at its
\* ends, without line break and without grammar-valid "(chord)" substring;
\* valid chord names at strictly increasing positions, none beyond the text
RoundTripLine(line) ==
    /\ Strip(line.text) = line.text
    /\ NL \notin Range(line.text)
    /\ ChordGroupNames(line.text, 1) = << >>
    /\ \A k \in DOMAIN line.chords :
          /\ IsChordToken(line.chords[k].name)
          /\ line.chords[k].position <= Len(line.text)
    /\ PositionsGrowBy(line.chords, 1)

\* C28: reverse round-trip. For every Structured Line whose text has no
\* leading/trailing whitespace, no line break and no grammar-valid
\* "(chord)" substring, and whose annotations have valid chord names and
\* strictly increasing positions each <= len(text), parsing the output of
\* convert_song_lines_into_raw_lyrics for that line with
\* convert_lyrics_into_song_lines gives back the same text and the same
\* (position, name) sequence.
C28_ReverseRoundTrip ==
    pc = "resubmitted" =>
        LET before == results[1].lines_before
        IN  \A k \in DOMAIN before :
               RoundTripLine(before[k]) =>
                   /\ k \in DOMAIN lines
                   /\ lines[k].text = before[k].text
                   /\ lines[k].chords = before[k].chords

\* "x(" with Dm at 0 and A at 2 is rendered "(Dm)x((A)" and parsed back
C28_Witness ==
    /\ pc = "resubmitted"
    /\ results[1].lines_before
         = <<[text |-> <<"x", "(">>,
              chords |-> <<[position |-> 0, name |-> <<"D", "m">>],
                           [position |-> 2, name |-> <<"A">>]>>]>>
    /\ RoundTripLine(results[1].lines_before[1])
    /\ lyrics = <<"(", "D", "m", ")", "x", "(", "(", "A", ")", NL>>
    /\ lines = results[1].lines_before

\* C29: the two chord-row builders agree. For every line with at least one
\* chord (positions in any non-decreasing order), the chord row built by
\* convert_song_lines_into_formatted_lyrics equals the chord row built
\* inside convert_songs_to_pdf (and by convert_line_chords_to_string, which
\* takes the chords as a dict and so as distinct positions) followed by
\* exactly one space.
C29_ChordRowsAgree ==
    (pc = "exported" /\ Len(results) = 2) =>
        LET ls == results[1].lines_before
            cells == results[2].cells
        IN  \A k \in DOMAIN ls :
               (ls[k].chords # << >> /\ PositionsGrowBy(ls[k].chords, 0)) =>
                   LET chord_cell ==
                           SelectSeq(cells, LAMBDA c : c.line = k)[1].text
                       display_row == RowsOf(results[1].value)[2 * k - 1]
                   IN  /\ display_row = chord_cell \o <<SP>>
                       /\ PositionsGrowBy(ls[k].chords, 1) =>
                             display_row
                               = convert_line_chords_to_string(ls[k]) \o <<SP>>

\* Two chords on one position: "A Dm " on display, "A Dm" in the PDF
C29_Witness ==
    /\ pc = "exported"
    /\ Len(results) = 2
    /\ results[1].lines_before[1].chords
         = <<[position |-> 0, name |-> <<"A">>],
             [position |-> 0, name |-> <<"D", "m">>]>>
    /\ RowsOf(results[1].value)[1] = <<"A", SP, "D", "m", SP>>
    /\ results[2].cells[1].text = <<"A", SP, "D", "m">>

---------------------------------------------------------------------------
(* Properties of the desktop editor, verified under SpecGui                *)

\* C30: GUI selection stays valid. After any sequence of ChordEditor
\* operations (select songs, double-click load, save, delete selected, new
\* song, refresh library), every id in selected_song_ids is the id of a
\* song currently listed in song_id_map, so "Export selected to PDF" and
\* "Delete selected" never send the id of a song the editor itself has
\* already deleted; and current_song_id is either None or the id of a song
\* that still exists.
C30_SelectionValid ==
    pc = "editor" =>
        /\ \A k \in DOMAIN gui.selected_song_ids :
              gui.selected_song_ids[k] \in Range(gui.song_id_map)
        /\ gui.current_song_id = 0 \/ gui.current_song_id \in IdsOf(db)

=============================================================================
